---- MODULE Spec2Model ----
(***************************************************************************)
(* A model of the Jira -> Claude -> GitHub orchestrator.                   *)
(*                                                                         *)
(*  - WorkflowEngine (src/src/config.ts, second class, lines 675-1394):    *)
(*    the handlers, the webhook entry point and the reconciliation poll,   *)
(*    one step per await; the synchronous code between two awaits is part  *)
(*    of the step that precedes it.                                        *)
(*  - StateManager (src/src/services/state.ts): the task rows.             *)
(*  - ClaudeService.mergeIntoStaging (src/src/services/claude.ts): the     *)
(*    staging lock and the git sequence behind it.                         *)
(*  - waitForStagingWorkflow and pollWorkflowRun (config.ts 1131-1232):    *)
(*    the retry loop around a failing GitHub Actions run.                  *)
(*  - cost_usd: what each handler run adds to, or writes over, the cost.   *)
(*  - On their own: the reading of an approval comment, the signature     *)
(*    check of the webhook server (src/unnamed/part_002), the worktree     *)
(*    bookkeeping of ClaudeService, and the statements of upsertTask and   *)
(*    deleteTask on the table.                                             *)
(*                                                                         *)
(* Jira, GitHub, the agent and git are the environment: every call to      *)
(* them either succeeds, with its effect, or throws.                       *)
(***************************************************************************)
EXTENDS Integers, Sequences, FiniteSets, TLC

Keys == {"K1"}
Webhooks == {"w1"}
Pollers == {"r1"}
Threads == Webhooks \cup Pollers

\* The tasks that call mergeIntoStaging, each with its own branch.
Callers == {"c1", "c2", "c3"}

\* Bounds of the model.
MaxComments == 1
MaxRuns == 2
MaxMoves == 3
MaxRetries == 2
MaxFollowUps == 2
MaxCost == 2
MaxSpent == 8
MaxNotes == 3
MaxDbTime == 2
MaxAttempts == 3
maxConcurrentTasks == 2

\* waitForStagingWorkflow: tries of findWorkflowRun per attempt; the time
\* pollWorkflowRun waits at most and its delays, in units of 15 s
FindTries == 10
MaxPollTime == 40

Null == 0 - 1

VARIABLES
  store,        \* StateManager: issue key -> task row (phase "none": no row)
  processing,   \* WorkflowEngine.processing: the set of held keys
  jira,         \* the tracker and code host: per issue, status, assignee, comments, label,
                \* PR and its branch, and (rfc) the automation's last report:
                \* "clarify", the message of "Rework failed", or "planning" for
                \* "Planning failed"; history (reassigned): a person has
                \* assigned the issue to the automation since the record was
                \* last written failed
  now,          \* the clock read by new Date() and datetime('now')
  th,           \* per logical thread: where it is suspended, and its locals
  g,            \* history: per human comment, how often it was acted upon
  moves,        \* history: how often people reassigned or moved an issue
  stagingLock,  \* ClaudeService.stagingLock
  repo,         \* the main repository and its remote: staging, the task branches
  mc,           \* per caller of mergeIntoStaging: where it is, and how it ended
  ci,           \* a call of waitForStagingWorkflow: its locals, and how it ended
  acct,         \* the cost of one task: its row's phase and cost_usd, and
                \* (history) the sum of the costs of the agent runs made for it
  fn,           \* the last call of a function that has no state: its input and result
  activeWorktrees,
                \* ClaudeService.activeWorktrees: the tasks that have a worktree
  db            \* StateManager.db: the rows of the table tasks, and the clock
                \* of datetime('now')

\* the engine and the staging merge, which the other parts leave alone
bvars == <<store, processing, jira, now, th, g, moves, stagingLock, repo, mc>>

\* the parts that are followed on their own
svars == <<ci, acct, fn, activeWorktrees, db>>

\* all but the staging merge
evars == <<store, processing, jira, now, th, g, moves, svars>>

\* all but the engine's handlers
mvars == <<stagingLock, repo, mc, svars>>

vars == <<bvars, svars>>

-----------------------------------------------------------------------------
\* StateManager (src/src/services/state.ts)
\*
\* Of a row, the columns the handlers branch on.  The table is taken to have
\* every column the engine writes; worktree_path is a column of the TaskRow
\* type (src/src/types.ts) that no statement writes.

TaskFields == {"phase", "plan_posted_at", "last_feedback_check", "updated_at",
               "pr_number", "branch_name", "worktree_path"}

NoRow == [phase |-> "none", plan_posted_at |-> Null, last_feedback_check |-> Null,
          updated_at |-> Null, pr_number |-> Null, branch_name |-> Null,
          worktree_path |-> Null]

Exists(st, k) == st[k].phase # "none"

\* INSERT without a phase violates NOT NULL of the schema and throws.
upsertThrows(st, k, data) == ~Exists(st, k) /\ "phase" \notin DOMAIN data

upsertTask(st, k, data, t) ==
  [st EXCEPT ![k] =
     [f \in TaskFields |->
        IF f = "updated_at" THEN t
        ELSE IF f \in DOMAIN data THEN data[f]
        ELSE IF Exists(st, k) THEN st[k][f] ELSE Null]]

deleteTask(st, k) == [st EXCEPT ![k] = NoRow]

getTasksByPhase(st, phase) == {k \in Keys : st[k].phase = phase}

-----------------------------------------------------------------------------
\* Threads: a webhook delivery or a reconciliation pass.

Idle == [pc |-> "idle", key |-> "", cmt |-> 0, kind |-> "", rstep |-> 0,
         rtodo |-> {}, wm |-> Null, evt |-> "", pstatus |-> "",
         passignee |-> "", pdone |-> FALSE, err |-> ""]

mergeKey(k) == "merge-" \o k

\* The synchronous state a handler works on between two awaits.
Sync(t) == [b |-> th[t], store |-> store,
            processing |-> processing, g |-> g]

Commit(t, S) ==
  /\ th' = [th EXCEPT ![t] = S.b]
  /\ store' = S.store
  /\ processing' = S.processing
  /\ g' = S.g

\* History: the handler that was dispatched for comment S.b.cmt is over.
Finished(S) ==
  IF S.b.cmt = 0 THEN S ELSE [S EXCEPT !.g[S.b.key][S.b.cmt].done = TRUE]

\* The handler returns to its caller: the webhook ends, a poll loop goes on.
Ret(S, t) ==
  [Finished(S) EXCEPT !.b = IF t \in Webhooks
                  THEN Idle
                  ELSE [S.b EXCEPT !.pc = "loop", !.key = "", !.cmt = 0,
                                   !.kind = "", !.wm = Null, !.err = ""]]

\* The handler throws: the server's .catch ends a webhook; in a poll, steps
\* 2-4 catch per task and go on, steps 1 and 5 fall to the outer catch.
Throw(S, t) ==
  [Finished(S) EXCEPT !.b = IF t \in Webhooks \/ S.b.rstep \in {1, 5}
                  THEN Idle
                  ELSE [S.b EXCEPT !.pc = "loop", !.key = "", !.cmt = 0,
                                   !.kind = "", !.wm = Null, !.err = ""]]

Goto(S, pc) == [S EXCEPT !.b.pc = pc]

\* a throw inside a try block whose catch tells the error by its message;
\* err stays "" for the errors no handler tells apart
Catch(S, pc, err) == [S EXCEPT !.b.pc = pc, !.b.err = err]

Acquire(S, key) == [S EXCEPT !.processing = @ \cup {key}]

ReleaseNothing(S, key) == S

Release(S, key) == [S EXCEPT !.processing = @ \ {key}]

Upsert(S, k, data) == [S EXCEPT !.store = upsertTask(@, k, data, now)]

-----------------------------------------------------------------------------
\* Phase 1: handleNewTask

handleNewTaskUnguarded(S, t, k) ==
  IF k \in S.processing THEN Ret(S, t)
  ELSE [Acquire(S, k) EXCEPT !.b.pc = "nt_transition", !.b.key = k]

handleNewTask(S, t, k) ==
  IF k \in S.processing THEN Ret(S, t)
  ELSE IF Exists(S.store, k) /\ S.store[k].phase = "plan-posted" THEN Ret(S, t)
  ELSE [Acquire(S, k) EXCEPT !.b.pc = "nt_transition", !.b.key = k]

\* await transitionIssue(issueKey, 'In Progress')
NtTransition(t) ==
  /\ th[t].pc = "nt_transition"
  /\ \E ok \in BOOLEAN :
       /\ jira' = IF ok THEN [jira EXCEPT ![th[t].key].status = "in progress"] ELSE jira
       /\ Commit(t, Goto(Sync(t), IF ok THEN "nt_plan" ELSE "nt_catch"))
  /\ UNCHANGED <<now, moves, mvars>>

\* await addComment(analyzing...); await createPlan(...); !result.success throws
NtPlan(t) ==
  /\ th[t].pc = "nt_plan"
  /\ \E ok \in BOOLEAN : Commit(t, Goto(Sync(t), IF ok THEN "nt_post" ELSE "nt_catch"))
  /\ UNCHANGED <<jira, now, moves, mvars>>

\* await addComment(plan); await assignIssue(assignBackId); upsertTask; finally
NtPost(t) ==
  /\ th[t].pc = "nt_post"
  /\ LET k == th[t].key IN
     \E ok \in BOOLEAN :
       IF ok
       THEN /\ jira' = [jira EXCEPT ![k].assignee = "human"]
            /\ Commit(t, Ret(Release(Upsert(Sync(t), k,
                          [phase |-> "plan-posted", plan_posted_at |-> now]), k), t))
       ELSE /\ jira' = jira
            /\ Commit(t, Goto(Sync(t), "nt_catch"))
  /\ UNCHANGED <<now, moves, mvars>>

\* the same with the upsert of handleImplementation's catch block
NtCatchFails(t) ==
  /\ th[t].pc = "nt_catch"
  /\ LET k == th[t].key IN
     \E o \in {"ok", "comment_fails", "assign_fails"} :
       /\ jira' = CASE o = "ok" -> [jira EXCEPT ![k].rfc = "planning", ![k].assignee = "human"]
                    [] o = "assign_fails" -> [jira EXCEPT ![k].rfc = "planning"]
                    [] OTHER -> jira
       /\ Commit(t, IF o = "ok"
                    THEN Ret(Release(Upsert(Sync(t), k, [phase |-> "failed"]), k), t)
                    ELSE Throw(Release(Sync(t), k), t))
  /\ UNCHANGED <<now, moves, mvars>>

\* catch: await addComment(planning failed); await assignIssue(errorAssignId); finally
NtCatch(t) ==
  /\ th[t].pc = "nt_catch"
  /\ LET k == th[t].key IN
     \E o \in {"ok", "comment_fails", "assign_fails"} :
       /\ jira' = CASE o = "ok" -> [jira EXCEPT ![k].rfc = "planning", ![k].assignee = "human"]
                    [] o = "assign_fails" -> [jira EXCEPT ![k].rfc = "planning"]
                    [] OTHER -> jira
       /\ Commit(t, IF o = "ok" THEN Ret(Release(Sync(t), k), t)
                    ELSE Throw(Release(Sync(t), k), t))
  /\ UNCHANGED <<now, moves, mvars>>

-----------------------------------------------------------------------------
\* History: per human comment, the sources (webhook, reconciliation poll)
\* whose dispatch of it reached an agent run, and how often it was taken as an
\* approval (counted up to MaxRuns).

NoHistory == [by |-> {}, approved |-> 0, done |-> FALSE, dropped |-> FALSE]

Source(t) == IF t \in Webhooks THEN "webhook" ELSE "reconcile"

\* an agent cycle (re-plan, implementation, rework) runs for comment c
Ran(S, t, k, c) ==
  IF c = 0 THEN S ELSE [S EXCEPT !.g[k][c].by = @ \cup {Source(t)}]

\* the webhook of comment c finds the key held and returns
Dropped(S, t, k, c) ==
  IF t \in Webhooks THEN [S EXCEPT !.g[k][c].dropped = TRUE] ELSE S

\* comment c is taken as an approval
Approved(S, k, c) ==
  IF c = 0 THEN S ELSE [S EXCEPT !.g[k][c].approved = IF @ < MaxRuns THEN @ + 1 ELSE @]

-----------------------------------------------------------------------------
\* Phase 2: handleImplementation

handleImplementation(S, t, k) ==
  IF k \in S.processing THEN Ret(S, t)
  ELSE IF ~Exists(S.store, k) THEN Ret(Acquire(S, k), t)
  ELSE [Acquire(S, k) EXCEPT !.b.pc = "im_start", !.b.key = k]

\* await addComment(starting); await assignIssue(claudeAccountId); createBranch
ImStart(t) ==
  /\ th[t].pc = "im_start"
  /\ \E o \in {"ok", "comment_fails", "branch_fails"} :
       /\ jira' = IF o = "comment_fails" THEN jira
                  ELSE [jira EXCEPT ![th[t].key].assignee = "claude"]
       /\ Commit(t, Goto(Sync(t), IF o = "ok" THEN "im_agent" ELSE "im_catch"))
  /\ UNCHANGED <<now, moves, mvars>>

\* await implementPlan(...); pushChanges (!pushed throws "No changes to
\* push"); mergeIntoStaging
ImAgent(t) ==
  /\ th[t].pc = "im_agent"
  /\ \E o \in {"ok", "no_changes", "fails"} :
       Commit(t, LET S == Ran(Sync(t), t, th[t].key, th[t].cmt) IN
                 CASE o = "ok" -> Goto(S, "im_ci")
                   [] o = "no_changes" -> Catch(S, "im_catch", "no changes")
                   [] OTHER -> Goto(S, "im_catch"))
  /\ UNCHANGED <<jira, now, moves, mvars>>

\* await waitForStagingWorkflow(...); await smokeTestStaging()
ImCi(t) ==
  /\ th[t].pc = "im_ci"
  /\ \E ok \in BOOLEAN : Commit(t, Goto(Sync(t), IF ok THEN "im_pr" ELSE "im_catch"))
  /\ UNCHANGED <<jira, now, moves, mvars>>

\* await createPullRequest; await addLabel(pr-pending); await addComment(PR #)
ImPr(t) ==
  /\ th[t].pc = "im_pr"
  /\ LET k == th[t].key IN
     \E o \in {"ok", "no_pr", "no_label", "no_comment"} :
       /\ jira' = [jira EXCEPT ![k].pr = IF o = "no_pr" THEN @ ELSE "open",
                               ![k].branch = IF o = "no_pr" THEN @ ELSE TRUE,
                               ![k].label = IF o \in {"no_pr", "no_label"} THEN @ ELSE TRUE,
                               ![k].prc = IF o = "ok" THEN TRUE ELSE @]
       /\ Commit(t, Goto(Sync(t), IF o = "ok" THEN "im_finish" ELSE "im_catch"))
  /\ UNCHANGED <<now, moves, mvars>>

\* the same with an upsert that leaves the PR number out
ImFinishNoPr(t) ==
  /\ th[t].pc = "im_finish"
  /\ LET k == th[t].key IN
     \E o \in {"ok", "transition_fails", "assign_fails"} :
       /\ jira' = [jira EXCEPT ![k].status = IF o = "transition_fails" THEN @ ELSE "test",
                               ![k].assignee = IF o = "ok" THEN "human" ELSE @]
       /\ Commit(t, IF o = "ok"
                    THEN Ret(Release(Upsert(Sync(t), k,
                               [phase |-> "test", branch_name |-> 1]),
                             k), t)
                    ELSE Goto(Sync(t), "im_catch"))
  /\ UNCHANGED <<now, moves, mvars>>

\* await transitionIssue('Test'); await assignIssue(implAssignId); upsertTask; finally
ImFinish(t) ==
  /\ th[t].pc = "im_finish"
  /\ LET k == th[t].key IN
     \E o \in {"ok", "transition_fails", "assign_fails"} :
       /\ jira' = [jira EXCEPT ![k].status = IF o = "transition_fails" THEN @ ELSE "test",
                               ![k].assignee = IF o = "ok" THEN "human" ELSE @]
       /\ Commit(t, IF o = "ok"
                    THEN Ret(Release(Upsert(Sync(t), k,
                               [phase |-> "test", branch_name |-> 1, pr_number |-> 1]),
                             k), t)
                    ELSE Goto(Sync(t), "im_catch"))
  /\ UNCHANGED <<now, moves, mvars>>

\* catch: await addComment(error); await assignIssue(implErrAssignId);
\* upsertTask({phase: 'failed'}); finally
ImCatch(t) ==
  /\ th[t].pc = "im_catch"
  /\ LET k == th[t].key IN
     \E ok \in BOOLEAN :
       IF ok
       THEN /\ jira' = [jira EXCEPT ![k].assignee = "human", ![k].reassigned = FALSE]
            /\ Commit(t, Ret(Release(Upsert(Sync(t), k, [phase |-> "failed"]), k), t))
       ELSE /\ jira' = jira
            /\ Commit(t, Throw(Release(Sync(t), k), t))
  /\ UNCHANGED <<now, moves, mvars>>

-----------------------------------------------------------------------------
\* Phase 1b: handlePlanFeedback

isApproval(kind) == kind = "approve"

handlePlanFeedback(S, t, k, kind, c) ==
  IF k \in S.processing THEN Ret(Dropped(S, t, k, c), t)
  ELSE IF ~Exists(S.store, k) THEN Ret(S, t)
  ELSE IF isApproval(kind)
  THEN handleImplementation(
         Approved([Upsert(S, k, [phase |-> "approved"]) EXCEPT !.b.cmt = c], k, c), t, k)
  ELSE [Acquire(S, k) EXCEPT !.b.pc = "pf_plan", !.b.key = k, !.b.cmt = c]

\* await addComment(adjusting); await createPlan(...)
PfPlan(t) ==
  /\ th[t].pc = "pf_plan"
  /\ LET k == th[t].key IN
     \E o \in {"ok", "agent_fails", "comment_fails"} :
       Commit(t, IF o = "comment_fails"
                 THEN Throw(Release(Sync(t), k), t)
                 ELSE Goto(Ran(Sync(t), t, k, th[t].cmt),
                           IF o = "ok" THEN "pf_post" ELSE "pf_failed"))
  /\ UNCHANGED <<jira, now, moves, mvars>>

\* await addComment(updated plan); upsertTask; finally
PfPost(t) ==
  /\ th[t].pc = "pf_post"
  /\ LET k == th[t].key IN
     \E ok \in BOOLEAN :
       Commit(t, IF ok
                 THEN Ret(Release(Upsert(Sync(t), k,
                            [phase |-> "plan-posted", plan_posted_at |-> now]), k), t)
                 ELSE Throw(Release(Sync(t), k), t))
  /\ UNCHANGED <<jira, now, moves, mvars>>

\* else: await addComment(re-planning failed); finally
PfFailed(t) ==
  /\ th[t].pc = "pf_failed"
  /\ LET k == th[t].key IN
     \E ok \in BOOLEAN :
       Commit(t, IF ok THEN Ret(Release(Sync(t), k), t)
                 ELSE Throw(Release(Sync(t), k), t))
  /\ UNCHANGED <<jira, now, moves, mvars>>

-----------------------------------------------------------------------------
\* Phase 2b: handleTestFeedback

handleTestFeedback(S, t, k, c) ==
  IF k \in S.processing THEN Ret(Dropped(S, t, k, c), t)
  ELSE IF ~Exists(S.store, k) \/ S.store[k].branch_name = Null THEN Ret(S, t)
  ELSE [Acquire(S, k) EXCEPT !.b.pc = "tf_start", !.b.key = k, !.b.cmt = c]

\* await addComment(reviewing); await assignIssue(claudeAccountId)
TfStart(t) ==
  /\ th[t].pc = "tf_start"
  /\ \E ok \in BOOLEAN :
       /\ jira' = IF ok THEN [jira EXCEPT ![th[t].key].assignee = "claude"] ELSE jira
       /\ Commit(t, Goto(Sync(t), IF ok THEN "tf_agent" ELSE "tf_catch"))
  /\ UNCHANGED <<now, moves, mvars>>

\* await rework(...); pushRework; mergeIntoStaging (a conflict throws)
TfAgent(t) ==
  /\ th[t].pc = "tf_agent"
  /\ \E o \in {"ok", "no_changes", "conflict", "fails"} :
       Commit(t, LET S == Ran(Sync(t), t, th[t].key, th[t].cmt) IN
                 CASE o = "ok" -> Goto(S, "tf_ci")
                   [] o = "no_changes" -> Goto(S, "tf_clarify")
                   [] o = "conflict" -> Catch(S, "tf_catch", "conflict")
                   [] OTHER -> Goto(S, "tf_catch"))
  /\ UNCHANGED <<jira, now, moves, mvars>>

\* a partial upsert, then the finally block; an upsert that throws is caught
UpsertOrCatch(S, t, k, data, catch) ==
  IF upsertThrows(S.store, k, data) THEN Goto(S, catch)
  ELSE Ret(Release(Upsert(S, k, data), k), t)

\* the same without the upsert
TfClarifyKeepsWatermark(t) ==
  /\ th[t].pc = "tf_clarify"
  /\ LET k == th[t].key IN
     \E ok \in BOOLEAN :
       /\ jira' = IF ok THEN [jira EXCEPT ![k].rfc = "clarify"] ELSE jira
       /\ Commit(t, IF ok THEN Ret(Release(Sync(t), k), t)
                    ELSE Goto(Sync(t), "tf_catch"))
  /\ UNCHANGED <<now, moves, mvars>>

\* !pushResult.pushed: await addComment(clarify); upsertTask; return; finally
TfClarify(t) ==
  /\ th[t].pc = "tf_clarify"
  /\ LET k == th[t].key IN
     \E ok \in BOOLEAN :
       /\ jira' = IF ok THEN [jira EXCEPT ![k].rfc = "clarify"] ELSE jira
       /\ Commit(t, IF ok
                    THEN UpsertOrCatch(Sync(t), t, k, [last_feedback_check |-> now],
                                       "tf_catch")
                    ELSE Goto(Sync(t), "tf_catch"))
  /\ UNCHANGED <<now, moves, mvars>>

\* await waitForStagingWorkflow(...); await smokeTestStaging(); await addComment(fixes)
TfCi(t) ==
  /\ th[t].pc = "tf_ci"
  /\ \E ok \in BOOLEAN : Commit(t, Goto(Sync(t), IF ok THEN "tf_finish" ELSE "tf_catch"))
  /\ UNCHANGED <<jira, now, moves, mvars>>

\* await assignIssue(testAssignId); upsertTask; finally
TfFinish(t) ==
  /\ th[t].pc = "tf_finish"
  /\ LET k == th[t].key IN
     \E ok \in BOOLEAN :
       /\ jira' = IF ok THEN [jira EXCEPT ![k].assignee = "human"] ELSE jira
       /\ Commit(t, IF ok
                    THEN UpsertOrCatch(Sync(t), t, k, [last_feedback_check |-> now], "tf_catch")
                    ELSE Goto(Sync(t), "tf_catch"))
  /\ UNCHANGED <<now, moves, mvars>>

\* the same with the upsert of handleImplementation's catch block
TfCatchFails(t) ==
  /\ th[t].pc = "tf_catch"
  /\ LET k == th[t].key
         message == IF th[t].err = "" THEN "error" ELSE th[t].err
     IN
     \E o \in {"ok", "comment_fails", "assign_fails"} :
       /\ jira' = CASE o = "ok" -> [jira EXCEPT ![k].rfc = message, ![k].assignee = "human"]
                    [] o = "assign_fails" -> [jira EXCEPT ![k].rfc = message]
                    [] OTHER -> jira
       /\ Commit(t, IF o = "ok"
                    THEN Ret(Release(Upsert(Sync(t), k, [phase |-> "failed"]), k), t)
                    ELSE Throw(Release(Sync(t), k), t))
  /\ UNCHANGED <<now, moves, mvars>>

\* catch: await addComment(rework failed: error.message); await
\* assignIssue(testErrAssignId); finally
TfCatch(t) ==
  /\ th[t].pc = "tf_catch"
  /\ LET k == th[t].key
         message == IF th[t].err = "" THEN "error" ELSE th[t].err
     IN
     \E o \in {"ok", "comment_fails", "assign_fails"} :
       /\ jira' = CASE o = "ok" -> [jira EXCEPT ![k].rfc = message, ![k].assignee = "human"]
                    [] o = "assign_fails" -> [jira EXCEPT ![k].rfc = message]
                    [] OTHER -> jira
       /\ Commit(t, IF o = "ok" THEN Ret(Release(Sync(t), k), t)
                    ELSE Throw(Release(Sync(t), k), t))
  /\ UNCHANGED <<now, moves, mvars>>

-----------------------------------------------------------------------------
\* Phase 3: handleMerge

handleMerge(S, t, k) ==
  IF mergeKey(k) \in S.processing THEN Ret(S, t)
  ELSE [Acquire(S, mergeKey(k)) EXCEPT
          !.b.pc = IF S.store[k].pr_number = Null THEN "mg_issue" ELSE "mg_getpr",
          !.b.key = k]

\* !prNumber: await getIssue; scan the comments for "**PR #:**"; none: return
MgIssue(t) ==
  /\ th[t].pc = "mg_issue"
  /\ LET k == th[t].key IN
     \E ok \in BOOLEAN :
       Commit(t, IF ~ok THEN Goto(Sync(t), "mg_catch")
                 ELSE IF jira[k].prc THEN Goto(Sync(t), "mg_getpr")
                 ELSE Ret(Release(Sync(t), mergeKey(k)), t))
  /\ UNCHANGED <<jira, now, moves, mvars>>

\* await getPullRequest(prNumber)
MgGetPr(t) ==
  /\ th[t].pc = "mg_getpr"
  /\ LET k == th[t].key IN
     \E ok \in BOOLEAN :
       Commit(t, IF ~ok \/ jira[k].pr = "none" THEN Goto(Sync(t), "mg_catch")
                 ELSE IF jira[k].pr # "open" THEN Goto(Sync(t), "mg_closed")
                 ELSE Goto(Sync(t), "mg_merge"))
  /\ UNCHANGED <<jira, now, moves, mvars>>

\* pr.state !== 'open': await removeLabel; deleteTask; return; finally
MgClosed(t) ==
  /\ th[t].pc = "mg_closed"
  /\ LET k == th[t].key IN
     \E ok \in BOOLEAN :
       IF ok
       THEN /\ jira' = [jira EXCEPT ![k].label = FALSE]
            /\ Commit(t, Ret(Release([Sync(t) EXCEPT !.store = deleteTask(@, k)],
                                     mergeKey(k)), t))
       ELSE /\ jira' = jira
            /\ Commit(t, Goto(Sync(t), "mg_catch"))
  /\ UNCHANGED <<now, moves, mvars>>

\* await mergePullRequest(prNumber, title, 'squash')
MgMerge(t) ==
  /\ th[t].pc = "mg_merge"
  /\ LET k == th[t].key IN
     \E ok \in BOOLEAN :
       IF ok /\ jira[k].pr = "open"
       THEN /\ jira' = [jira EXCEPT ![k].pr = "merged"]
            /\ Commit(t, Goto(Sync(t), "mg_cleanup"))
       ELSE /\ jira' = jira
            /\ Commit(t, Goto(Sync(t), "mg_catch"))
  /\ UNCHANGED <<now, moves, mvars>>

\* the same without deleteBranch
MgCleanupKeepsBranch(t) ==
  /\ th[t].pc = "mg_cleanup"
  /\ LET k == th[t].key IN
     \E o \in {"ok", "label_fails", "later_fails"} :
       /\ jira' = IF o = "label_fails" THEN jira ELSE [jira EXCEPT ![k].label = FALSE]
       /\ Commit(t, IF o = "ok"
                    THEN Ret(Release([Sync(t) EXCEPT !.store = deleteTask(@, k)],
                                     mergeKey(k)), t)
                    ELSE Goto(Sync(t), "mg_catch"))
  /\ UNCHANGED <<now, moves, mvars>>

\* await removeLabel; await addComment(merged); await deleteBranch; deleteTask; finally
MgCleanup(t) ==
  /\ th[t].pc = "mg_cleanup"
  /\ LET k == th[t].key IN
     \E o \in {"ok", "label_fails", "later_fails"} :
       /\ jira' = IF o = "label_fails" THEN jira
                  ELSE [jira EXCEPT ![k].label = FALSE,
                                    ![k].branch = IF o = "ok" THEN FALSE ELSE @]
       /\ Commit(t, IF o = "ok"
                    THEN Ret(Release([Sync(t) EXCEPT !.store = deleteTask(@, k)],
                                     mergeKey(k)), t)
                    ELSE Goto(Sync(t), "mg_catch"))
  /\ UNCHANGED <<now, moves, mvars>>

\* the same with the record deleted in the catch block
MgCatchDeletes(t) ==
  /\ th[t].pc = "mg_catch"
  /\ LET k == th[t].key IN
     \E ok \in BOOLEAN :
       Commit(t, IF ok THEN Ret(Release([Sync(t) EXCEPT !.store = deleteTask(@, k)],
                                        mergeKey(k)), t)
                 ELSE Throw(Release(Sync(t), mergeKey(k)), t))
  /\ UNCHANGED <<jira, now, moves, mvars>>

\* catch: await addComment(auto-merge failed); finally
MgCatch(t) ==
  /\ th[t].pc = "mg_catch"
  /\ LET k == th[t].key IN
     \E ok \in BOOLEAN :
       Commit(t, IF ok THEN Ret(Release(Sync(t), mergeKey(k)), t)
                 ELSE Throw(Release(Sync(t), mergeKey(k)), t))
  /\ UNCHANGED <<jira, now, moves, mvars>>

-----------------------------------------------------------------------------
\* GitHub Actions monitoring: waitForStagingWorkflow, pollWorkflowRun
\*
\* ci.fails counts the workflow runs that did not succeed, ci.fixes the calls
\* of fixBuildFailure.  ci.waited is the time pollWorkflowRun has slept.

NoCi == [pc |-> "idle", maxRetries |-> 0, attempt |-> 0, i |-> 0, waited |-> 0,
         intervalIdx |-> 0, fails |-> 0, fixes |-> 0, result |-> "none"]

\* const intervals = [15000, 30000, 60000], in units of 15 s
intervals == <<1, 2, 4>>

totalAttempts(maxRetries) == maxRetries + 1

lastAttemptLate(attempt, maxRetries) == attempt > totalAttempts(maxRetries)

\* if (attempt >= totalAttempts) throw
lastAttempt(attempt, maxRetries) == attempt >= totalAttempts(maxRetries)

\* the call returns (result "passed", "no_run", "off", "fell_through") or
\* throws (any other result)
CiEnd(c, result) == [c EXCEPT !.pc = "idle", !.result = result]

\* the head of the for loop over the attempts
CiLoop(c) ==
  IF c.attempt <= totalAttempts(c.maxRetries)
  THEN [c EXCEPT !.pc = "find", !.i = 0]
  ELSE CiEnd(c, "fell_through")

\* the workflow run did not succeed: give up, or fetch the logs
CiFailed(c) ==
  LET d == [c EXCEPT !.fails = @ + 1] IN
  IF lastAttempt(d.attempt, d.maxRetries) THEN CiEnd(d, "exhausted")
  ELSE [d EXCEPT !.pc = "logs"]

\* a handler calls waitForStagingWorkflow; !workflowFile returns at once
waitForStagingWorkflow(configured, maxRetries) ==
  /\ ci.pc = "idle"
  /\ ci' = IF configured
           THEN CiLoop([NoCi EXCEPT !.maxRetries = maxRetries, !.attempt = 1])
           ELSE CiEnd(NoCi, "off")
  /\ UNCHANGED <<bvars, acct, fn, activeWorktrees, db>>

\* await sleep(10000); await findWorkflowRun(...); after the tenth try
\* without a run the call returns
CiFind ==
  /\ ci.pc = "find"
  /\ \E o \in {"run", "no_run", "throws"} :
       ci' = CASE o = "run" -> [ci EXCEPT !.pc = "poll", !.waited = 0, !.intervalIdx = 0]
               [] o = "throws" -> CiEnd(ci, "error")
               [] OTHER -> IF ci.i + 1 < FindTries THEN [ci EXCEPT !.i = @ + 1]
                           ELSE CiEnd([ci EXCEPT !.i = @ + 1], "no_run")
  /\ UNCHANGED <<bvars, acct, fn, activeWorktrees, db>>

\* pollWorkflowRun: await getWorkflowRunStatus; completed: return; else
\* await sleep(delay), until maxPollTime has passed: timed_out
CiPoll ==
  /\ ci.pc = "poll"
  /\ \E o \in {"success", "failure", "running", "throws"} :
       ci' = CASE o = "success" -> CiEnd(ci, "passed")
               [] o = "failure" -> CiFailed(ci)
               [] o = "throws" -> CiEnd(ci, "error")
               [] OTHER ->
                    LET delay == intervals[IF ci.intervalIdx < Len(intervals)
                                           THEN ci.intervalIdx + 1 ELSE Len(intervals)]
                        d == [ci EXCEPT !.waited = @ + delay, !.intervalIdx = @ + 1]
                    IN IF d.waited < MaxPollTime THEN d ELSE CiFailed(d)
  /\ UNCHANGED <<bvars, acct, fn, activeWorktrees, db>>

\* await getFailedJobLogs(runId); await addComment(attempting an auto-fix)
CiLogs ==
  /\ ci.pc = "logs"
  /\ \E ok \in BOOLEAN :
       ci' = IF ok THEN [ci EXCEPT !.pc = "fix"] ELSE CiEnd(ci, "error")
  /\ UNCHANGED <<bvars, acct, fn, activeWorktrees, db>>

\* await fixBuildFailure(...); pushBuildFix; mergeIntoStaging; attempt++
CiFix ==
  /\ ci.pc = "fix"
  /\ \E o \in {"pushed", "fix_failed", "no_changes", "conflict"} :
       ci' = LET d == [ci EXCEPT !.fixes = @ + 1] IN
             IF o = "pushed" THEN CiLoop([d EXCEPT !.attempt = @ + 1])
             ELSE CiEnd(d, o)
  /\ UNCHANGED <<bvars, acct, fn, activeWorktrees, db>>

-----------------------------------------------------------------------------
\* The bookkeeping of cost_usd.  Every handler below holds the issue key from
\* its read of the row (taskState) to its upsert, so for the cost a handler
\* run is one step: the agent runs it makes, then the row it leaves.

NoAcct == [phase |-> "none", cost_usd |-> Null, spent |-> 0]

\* what an agent run reports: result.costUsd, a number or null
Costs == {Null} \cup 1..MaxCost

\* x ?? 0
orZero(x) == IF x = Null THEN 0 ELSE x

\* history: an agent run with this cost was made for the task
Charge(a, costUsd) == [a EXCEPT !.spent = @ + orZero(costUsd)]

\* handleNewTask: createPlan; upsertTask({phase: 'plan-posted', cost_usd:
\* result.costUsd, ...}); a failure leaves the row as it is
CostNewTask(costUsd, ok) ==
  /\ acct.phase # "plan-posted"
  /\ acct.spent + orZero(costUsd) <= MaxSpent
  /\ acct' = IF ok
             THEN [Charge(acct, costUsd) EXCEPT !.phase = "plan-posted", !.cost_usd = costUsd]
             ELSE IF acct.phase = "none" THEN acct
             ELSE Charge(acct, costUsd)
  /\ UNCHANGED <<bvars, ci, fn, activeWorktrees, db>>

\* handlePlanFeedback, re-plan: createPlan; on success upsertTask({cost_usd:
\* (taskState.cost_usd ?? 0) + (result.costUsd ?? 0), ...})
CostPlanFeedback(costUsd, ok) ==
  /\ acct.phase = "plan-posted"
  /\ acct.spent + orZero(costUsd) <= MaxSpent
  /\ acct' = IF ok
             THEN [Charge(acct, costUsd) EXCEPT
                     !.cost_usd = orZero(acct.cost_usd) + orZero(costUsd)]
             ELSE Charge(acct, costUsd)
  /\ UNCHANGED <<bvars, ci, fn, activeWorktrees, db>>

\* handleImplementation (after an approval, or a retry): implementPlan, the
\* auto-fixes of waitForStagingWorkflow; on success upsertTask({phase: 'test',
\* cost_usd: (taskState.cost_usd ?? 0) + (result.costUsd ?? 0), ...}); the
\* catch block writes {phase: 'failed'}, or nothing when it throws itself
CostImplementation(costUsd, fixUsd, o) ==
  /\ acct.phase \in {"plan-posted", "approved", "failed"}
  /\ acct.spent + orZero(costUsd) + orZero(fixUsd) <= MaxSpent
  /\ acct' = LET a == Charge(Charge(acct, costUsd), fixUsd) IN
             CASE o = "ok" -> [a EXCEPT !.phase = "test",
                                 !.cost_usd = orZero(acct.cost_usd) + orZero(costUsd)]
               [] o = "fails" -> [a EXCEPT !.phase = "failed"]
               [] OTHER -> [a EXCEPT !.phase = "approved"]
  /\ UNCHANGED <<bvars, ci, fn, activeWorktrees, db>>

\* handleTestFeedback: rework, the auto-fixes of waitForStagingWorkflow; on
\* success upsertTask({cost_usd: (taskState.cost_usd ?? 0) +
\* (result.costUsd ?? 0), ...}); no changes, or a failure: cost_usd is not written
CostTestFeedback(costUsd, fixUsd, ok) ==
  /\ acct.phase = "test"
  /\ acct.spent + orZero(costUsd) + orZero(fixUsd) <= MaxSpent
  /\ acct' = LET a == Charge(Charge(acct, costUsd), fixUsd) IN
             IF ok THEN [a EXCEPT !.cost_usd = orZero(acct.cost_usd) + orZero(costUsd)]
             ELSE a
  /\ UNCHANGED <<bvars, ci, fn, activeWorktrees, db>>

-----------------------------------------------------------------------------
\* Webhook entry point: handleWebhook, handleIssueEvent, handleCommentEvent

Started(t) == [Sync(t) EXCEPT !.b = [Idle EXCEPT !.pc = "run"]]

handleIssueEvent(S, t, p) ==
  IF p.pdone THEN handleMerge(S, t, p.key)
  ELSE IF /\ p.passignee = "claude"
          /\ Exists(S.store, p.key)
          /\ S.store[p.key].phase \in {"failed", "approved"}
  THEN handleImplementation(Upsert(S, p.key, [phase |-> "approved"]), t, p.key)
  ELSE IF p.pstatus = "to do" /\ p.passignee = "claude"
  THEN handleNewTask(S, t, p.key)
  ELSE Ret(S, t)

\* the same without the test of the marker
handleCommentEventAny(S, t, p) ==
  IF ~Exists(S.store, p.key) THEN Ret(S, t)
  ELSE IF S.store[p.key].phase = "plan-posted"
  THEN handlePlanFeedback(S, t, p.key, p.kind, p.cmt)
  ELSE IF S.store[p.key].phase = "test"
  THEN handleTestFeedback(S, t, p.key, p.cmt)
  ELSE Ret(S, t)

handleCommentEvent(S, t, p) ==
  IF ~Exists(S.store, p.key) THEN Ret(S, t)
  ELSE IF p.kind = "bot" THEN Ret(S, t)
  ELSE IF S.store[p.key].phase = "plan-posted"
  THEN handlePlanFeedback(S, t, p.key, p.kind, p.cmt)
  ELSE IF S.store[p.key].phase = "test"
  THEN handleTestFeedback(S, t, p.key, p.cmt)
  ELSE Ret(S, t)

handleWebhook(t) ==
  /\ th[t].pc = "deliver"
  /\ Commit(t, IF th[t].evt = "comment"
               THEN handleCommentEvent(Started(t), t, th[t])
               ELSE handleIssueEvent(Started(t), t, th[t]))
  /\ UNCHANGED <<jira, now, moves, mvars>>

-----------------------------------------------------------------------------
\* Reconciliation poll: reconcile()
\*
\* A listing holds the rows of every tracked issue, and the loop awaits the
\* handlers of the issues before k one after the other.  So between a listing
\* and the turn of k any time may pass: the poll waits at "loop", with the
\* row (and its watermark) as it was listed.

Item(k, wm) == [key |-> k, wm |-> wm]

\* the watermark of a listed row: the stored one, else updated_at
Watermark(row, f) == IF row[f] # Null THEN row[f] ELSE row.updated_at

\* the same, stopping only below the watermark
RECURSIVE scanAtWatermark(_, _, _)
scanAtWatermark(comments, i, wm) ==
  IF i = 0 THEN 0
  ELSE IF comments[i].kind = "bot" THEN scanAtWatermark(comments, i - 1, wm)
  ELSE IF comments[i].created < wm THEN 0
  ELSE i

\* newest first; self-authored comments are skipped; the scan stops at the
\* first comment at or before the watermark. 0: nothing to dispatch.
RECURSIVE scan(_, _, _)
scan(comments, i, wm) ==
  IF i = 0 THEN 0
  ELSE IF comments[i].kind = "bot" THEN scan(comments, i - 1, wm)
  ELSE IF comments[i].created <= wm THEN 0
  ELSE i

\* reconcile() is called: await findClaudeTasks(...)
RecStart(t) ==
  /\ th[t].pc = "idle"
  /\ th' = [th EXCEPT ![t] = [Idle EXCEPT !.pc = "find", !.rstep = 1]]
  /\ UNCHANGED <<store, processing, jira, now, g, moves, mvars>>

\* step 1: the issues in "To Do" assigned to the automation
RecFind(t) ==
  /\ th[t].pc = "find"
  /\ \E ok \in BOOLEAN :
       th' = [th EXCEPT ![t] =
                IF ok
                THEN [Idle EXCEPT !.pc = "loop", !.rstep = 1,
                        !.rtodo = {Item(k, Null) : k \in
                           {x \in Keys : jira[x].status = "to do" /\ jira[x].assignee = "claude"}}]
                ELSE Idle]
  /\ UNCHANGED <<store, processing, jira, now, g, moves, mvars>>

\* the listing that opens steps 2, 3 and 4
Listing(st, step) ==
  CASE step = 2 -> {Item(k, Watermark(st[k], "plan_posted_at")) :
                      k \in getTasksByPhase(st, "plan-posted")}
    [] step = 3 -> {Item(k, Watermark(st[k], "last_feedback_check")) :
                      k \in getTasksByPhase(st, "test")}
    [] step = 4 -> {Item(k, Null) :
                      k \in getTasksByPhase(st, "failed") \cup getTasksByPhase(st, "approved")}

\* a loop of steps 1-4 is exhausted: the next step's listing (synchronous),
\* or the await of findApprovedTasks that opens step 5
RecNextStep(t) ==
  /\ th[t].pc = "loop"
  /\ th[t].rtodo = {}
  /\ th[t].rstep \in 1..4
  /\ th' = [th EXCEPT ![t] =
              IF th[t].rstep = 4
              THEN [Idle EXCEPT !.pc = "find5", !.rstep = 5]
              ELSE [Idle EXCEPT !.pc = "loop", !.rstep = th[t].rstep + 1,
                                !.rtodo = Listing(store, th[t].rstep + 1)]]
  /\ UNCHANGED <<store, processing, jira, now, g, moves, mvars>>

\* step 1: for (const task of tasks) await handleNewTask(task)
RecNewTask(t) ==
  /\ th[t].pc = "loop"
  /\ th[t].rstep = 1
  /\ \E it \in th[t].rtodo :
       Commit(t, handleNewTask([Sync(t) EXCEPT !.b.rtodo = @ \ {it}], t, it.key))
  /\ UNCHANGED <<jira, now, moves, mvars>>

\* steps 2-4: if (processing.has(key)) continue; else await getIssue(key)
RecPick(t) ==
  /\ th[t].pc = "loop"
  /\ th[t].rstep \in 2..4
  /\ \E it \in th[t].rtodo :
       th' = [th EXCEPT ![t] =
                IF it.key \in processing
                THEN [@ EXCEPT !.rtodo = @ \ {it}]
                ELSE [@ EXCEPT !.rtodo = @ \ {it}, !.pc = "issue",
                               !.key = it.key, !.wm = it.wm]]
  /\ UNCHANGED <<store, processing, jira, now, g, moves, mvars>>

\* steps 2-4: getIssue resolved; what the loop body does with the issue
RecIssue(t) ==
  /\ th[t].pc = "issue"
  /\ LET k == th[t].key
         c == scan(jira[k].comments, Len(jira[k].comments), th[t].wm)
         S == Sync(t)
     IN \E ok \in BOOLEAN :
          Commit(t,
            IF ~ok THEN Throw(S, t)
            ELSE IF th[t].rstep = 2
            THEN IF c = 0 THEN Ret(S, t)
                 ELSE handlePlanFeedback(S, t, k, jira[k].comments[c].kind, c)
            ELSE IF th[t].rstep = 3
            THEN IF jira[k].status = "done" THEN handleMerge(S, t, k)
                 ELSE IF c = 0 THEN Ret(S, t)
                 ELSE handleTestFeedback(S, t, k, c)
            ELSE IF jira[k].assignee = "claude"
            THEN handleImplementation(Upsert(S, k, [phase |-> "approved"]), t, k)
            ELSE Ret(S, t))
  /\ UNCHANGED <<jira, now, moves, mvars>>

\* step 5: findApprovedTasks resolved: label pr-pending and status Done
RecFind5(t) ==
  /\ th[t].pc = "find5"
  /\ \E ok \in BOOLEAN :
       th' = [th EXCEPT ![t] =
                IF ok
                THEN [Idle EXCEPT !.pc = "loop", !.rstep = 5,
                        !.rtodo = {Item(k, Null) : k \in
                           {x \in Keys : jira[x].status = "done" /\ jira[x].label}}]
                ELSE Idle]
  /\ UNCHANGED <<store, processing, jira, now, g, moves, mvars>>

\* step 5: for (const issue of approvedTasks) await handleMerge(issue.key)
RecMerge(t) ==
  /\ th[t].pc = "loop"
  /\ th[t].rstep = 5
  /\ \E it \in th[t].rtodo :
       Commit(t, handleMerge([Sync(t) EXCEPT !.b.rtodo = @ \ {it}], t, it.key))
  /\ UNCHANGED <<jira, now, moves, mvars>>

\* step 5 is exhausted: reconcile() returns
RecEnd(t) ==
  /\ th[t].pc = "loop"
  /\ th[t].rstep = 5
  /\ th[t].rtodo = {}
  /\ th' = [th EXCEPT ![t] = Idle]
  /\ UNCHANGED <<store, processing, jira, now, g, moves, mvars>>

-----------------------------------------------------------------------------
\* The people: they comment, reassign and move the issue; the tracker may
\* deliver a webhook for it (to an idle delivery slot) or not.

Deliver(w, p) ==
  IF w = "none" THEN th' = th
  ELSE th' = [th EXCEPT ![w] = [Idle EXCEPT !.pc = "deliver", !.key = p.key,
                 !.evt = p.evt, !.kind = p.kind, !.cmt = p.cmt, !.pstatus = p.pstatus,
                 !.passignee = p.passignee, !.pdone = p.pdone]]

Slots == {w \in Webhooks : th[w].pc = "idle"} \cup {"none"}

Payload(evt, k, kind, c, status, assignee, done) ==
  [evt |-> evt, key |-> k, kind |-> kind, cmt |-> c, pstatus |-> status,
   passignee |-> assignee, pdone |-> done]

Comment(k, kind, w, max) ==
  /\ Len(jira[k].comments) < max
  /\ now' = now + 1
  /\ jira' = [jira EXCEPT ![k].comments = Append(@, [created |-> now + 1, kind |-> kind])]
  /\ Deliver(w, Payload("comment", k, kind, Len(jira[k].comments) + 1, "", "", FALSE))
  /\ UNCHANGED <<store, processing, g, moves, mvars>>

HumanComment(k, kind, w) == Comment(k, kind, w, MaxComments)

\* a person comments on a plan or on an implementation, more than once
HumanFollowUp(k, kind, w) == Comment(k, kind, w, MaxFollowUps)

HumanAssign(k, who, w) ==
  /\ moves < MaxMoves
  /\ moves' = moves + 1
  /\ jira[k].assignee # who
  /\ jira' = [jira EXCEPT ![k].assignee = who,
                          ![k].reassigned = IF who = "claude" THEN TRUE ELSE @]
  /\ Deliver(w, Payload("issue", k, "", 0, jira[k].status, who, FALSE))
  /\ UNCHANGED <<store, processing, now, g, mvars>>

HumanTransition(k, status, w) ==
  /\ moves < MaxMoves
  /\ moves' = moves + 1
  /\ jira[k].status # status
  /\ jira' = [jira EXCEPT ![k].status = status]
  /\ Deliver(w, Payload("issue", k, "", 0, status, jira[k].assignee, status = "done"))
  /\ UNCHANGED <<store, processing, now, g, mvars>>

-----------------------------------------------------------------------------
\* ClaudeService.mergeIntoStaging (src/src/services/claude.ts)
\*
\* The git commands run one after the other in the main repository.  Each is
\* a step of its own here, so that the exclusion of two calls rests on the
\* staging lock and not on the scheduler.  A command that talks to the remote
\* (fetch, pull, push) succeeds or fails; a local one (checkout, merge
\* --abort) succeeds or fails as the state of the repository has it.

\* a tip is the set of task branches merged into it
NoSnapshot == [local |-> {}, hasRemote |-> FALSE, remote |-> {}]

Snapshot == [local |-> repo.localTip, hasRemote |-> repo.hasRemote,
             remote |-> repo.remoteTip]

NoCall == [pc |-> "idle", result |-> "none", pre |-> NoSnapshot]

\* the call is between taking the lock and its finally block
InMerge(c) == mc[c].pc \notin {"idle", "sleep"}

MsGoto(c, pc) ==
  /\ mc' = [mc EXCEPT ![c].pc = pc]
  /\ UNCHANGED stagingLock

\* finally { this.stagingLock = false }: the call returns or throws
finallyOnSuccess(c, result) ==
  /\ stagingLock' = IF result = "merged" THEN FALSE ELSE stagingLock
  /\ mc' = [mc EXCEPT ![c].pc = "idle", ![c].result = result]

finally(c, result) ==
  /\ stagingLock' = FALSE
  /\ mc' = [mc EXCEPT ![c].pc = "idle", ![c].result = result]

\* while (this.stagingLock) await sleep(500); this.stagingLock = true
spinNoWait(c) ==
  /\ stagingLock' = TRUE
  /\ mc' = [mc EXCEPT ![c] = [NoCall EXCEPT !.pc = "fetch_branch"]]

spin(c) ==
  IF stagingLock
  THEN /\ mc' = [mc EXCEPT ![c] = [NoCall EXCEPT !.pc = "sleep"]]
       /\ UNCHANGED stagingLock
  ELSE /\ stagingLock' = TRUE
       /\ mc' = [mc EXCEPT ![c] = [NoCall EXCEPT !.pc = "fetch_branch"]]

\* a task calls mergeIntoStaging(branchName)
mergeIntoStaging(c) ==
  /\ mc[c].pc = "idle"
  /\ spin(c)
  /\ UNCHANGED <<repo, evars>>

\* the timer of a waiting call fires: the loop tests the lock again
MsWake(c) ==
  /\ mc[c].pc = "sleep"
  /\ spin(c)
  /\ UNCHANGED <<repo, evars>>

\* git fetch origin <branch>
MsFetchBranch(c) ==
  /\ mc[c].pc = "fetch_branch"
  /\ \E ok \in BOOLEAN :
       IF ok /\ c \in repo.branches THEN MsGoto(c, "fetch_staging") ELSE finally(c, "fetch")
  /\ UNCHANGED <<repo, evars>>

\* try: git fetch origin staging
MsFetchStaging(c) ==
  /\ mc[c].pc = "fetch_staging"
  /\ \E ok \in BOOLEAN :
       MsGoto(c, IF ok /\ repo.hasRemote THEN "checkout_staging" ELSE "co_default")
  /\ UNCHANGED <<repo, evars>>

\* try: git checkout staging (a first checkout starts from origin/staging)
MsCheckoutStaging(c) ==
  /\ mc[c].pc = "checkout_staging"
  /\ IF repo.merging
     THEN MsGoto(c, "co_default") /\ UNCHANGED repo
     ELSE /\ MsGoto(c, "pull_staging")
          /\ repo' = [repo EXCEPT !.head = "staging", !.hasLocal = TRUE,
                        !.localTip = IF repo.hasLocal THEN @ ELSE repo.remoteTip]
  /\ UNCHANGED evars

\* try: git pull origin staging
MsPullStaging(c) ==
  /\ mc[c].pc = "pull_staging"
  /\ \E ok \in BOOLEAN :
       IF ok
       THEN /\ MsGoto(c, "merge")
            /\ repo' = [repo EXCEPT !.localTip = @ \cup repo.remoteTip]
       ELSE MsGoto(c, "co_default") /\ UNCHANGED repo
  /\ UNCHANGED evars

\* catch: git checkout <defaultBranch>
MsCheckoutDefault(c) ==
  /\ mc[c].pc = "co_default"
  /\ IF repo.merging
     THEN finally(c, "checkout") /\ UNCHANGED repo
     ELSE MsGoto(c, "pull_default") /\ repo' = [repo EXCEPT !.head = "default"]
  /\ UNCHANGED evars

\* catch: git pull origin <defaultBranch>
MsPullDefault(c) ==
  /\ mc[c].pc = "pull_default"
  /\ \E ok \in BOOLEAN :
       IF ok THEN MsGoto(c, "create_staging") ELSE finally(c, "pull")
  /\ UNCHANGED <<repo, evars>>

\* catch: git checkout -b staging (fails when the branch is there already)
MsCreateStaging(c) ==
  /\ mc[c].pc = "create_staging"
  /\ IF repo.hasLocal
     THEN finally(c, "checkout") /\ UNCHANGED repo
     ELSE /\ MsGoto(c, "merge")
          /\ repo' = [repo EXCEPT !.head = "staging", !.hasLocal = TRUE, !.localTip = {}]
  /\ UNCHANGED evars

\* git merge origin/<branch> --no-edit: merged, stopped on a conflict (the
\* merge is left in progress), or refused before it began
MsMerge(c) ==
  /\ mc[c].pc = "merge"
  /\ \E o \in {"ok", "conflict", "refused"} :
       /\ mc' = [mc EXCEPT ![c].pc = IF o = "ok" THEN "push" ELSE "abort",
                           ![c].pre = Snapshot]
       /\ repo' = CASE o = "ok" -> [repo EXCEPT !.localTip = @ \cup {c}]
                    [] o = "conflict" -> [repo EXCEPT !.merging = TRUE]
                    [] OTHER -> repo
  /\ UNCHANGED <<stagingLock, evars>>

\* catch: git merge --abort (fails when there is no merge to abort)
MsAbortKeepsMerge(c) ==
  /\ mc[c].pc = "abort"
  /\ IF repo.merging
     THEN MsGoto(c, "restore") /\ UNCHANGED repo
     ELSE finally(c, "abort") /\ UNCHANGED repo
  /\ UNCHANGED evars

MsAbort(c) ==
  /\ mc[c].pc = "abort"
  /\ IF repo.merging
     THEN MsGoto(c, "restore") /\ repo' = [repo EXCEPT !.merging = FALSE]
     ELSE finally(c, "abort") /\ UNCHANGED repo
  /\ UNCHANGED evars

\* catch: git checkout <defaultBranch>; throw new Error('Merge conflict ...')
MsRestore(c) ==
  /\ mc[c].pc = "restore"
  /\ IF repo.merging
     THEN finally(c, "checkout") /\ UNCHANGED repo
     ELSE finally(c, "conflict") /\ repo' = [repo EXCEPT !.head = "default"]
  /\ UNCHANGED evars

\* git push -u origin staging (rejected unless it is a fast-forward)
MsPush(c) ==
  /\ mc[c].pc = "push"
  /\ \E ok \in BOOLEAN :
       IF ok /\ repo.remoteTip \subseteq repo.localTip
       THEN /\ MsGoto(c, "final")
            /\ repo' = [repo EXCEPT !.hasRemote = TRUE, !.remoteTip = repo.localTip]
       ELSE finally(c, "push") /\ UNCHANGED repo
  /\ UNCHANGED evars

\* git checkout <defaultBranch>; return true
MsFinal(c) ==
  /\ mc[c].pc = "final"
  /\ finally(c, "merged")
  /\ repo' = [repo EXCEPT !.head = "default"]
  /\ UNCHANGED evars

-----------------------------------------------------------------------------
\* The functions that keep no state, each followed on its own.  A text is the
\* sequence of its characters.

\* handlePlanFeedback's reading of a comment: textLower.startsWith('approve'),
\* commentText.substring(7).trim(), and reviewerNotes || null (null is the
\* text <<"null">>, which no sequence of characters equals).
approval(commentText) ==
  LET null == <<"null">>
      toLowerCase(s) ==
        [i \in 1..Len(s) |->
           CASE s[i] = "A" -> "a" [] s[i] = "P" -> "p" [] s[i] = "R" -> "r"
             [] s[i] = "O" -> "o" [] s[i] = "V" -> "v" [] s[i] = "E" -> "e"
             [] s[i] = "K" -> "k" [] OTHER -> s[i]]
      startsWith(s, p) == Len(s) >= Len(p) /\ SubSeq(s, 1, Len(p)) = p
      substring(s, from) == SubSeq(s, from + 1, Len(s))
      trim(s) ==
        LET ink == {i \in 1..Len(s) : s[i] # " "}
        IN IF ink = {} THEN <<>>
           ELSE SubSeq(s, CHOOSE i \in ink : \A j \in ink : i <= j,
                          CHOOSE i \in ink : \A j \in ink : j <= i)
      textLower == toLowerCase(commentText)
      reviewerNotes == trim(substring(commentText, 7))
  IN IF startsWith(textLower, <<"a", "p", "p", "r", "o", "v", "e">>)
     THEN [phase |-> "approved",
           reviewer_notes |-> IF reviewerNotes = <<>> THEN null ELSE reviewerNotes]
     ELSE [phase |-> "plan-posted", reviewer_notes |-> null]

\* A comment on a posted plan, as handleCommentEvent hands it over: trimmed.
PlanComment ==
  \E head \in {<<"a", "p", "p", "r", "o", "v", "e">>, <<"A", "p", "p", "r", "o", "v", "e">>,
               <<"A", "P", "P", "R", "O", "V", "E">>, <<"o", "k">>},
     n \in 0..MaxNotes :
    \E rest \in [1..n -> {" ", ",", "k", "K"}] :
      LET commentText == head \o rest
      IN /\ commentText[Len(commentText)] # " "
         /\ fn' = [op |-> "approval", text |-> commentText, out |-> approval(commentText)]
         /\ UNCHANGED <<bvars, ci, acct, activeWorktrees, db>>

\* The webhook server (src/unnamed/part_002).  A signature header is the
\* sequence <<prefix, key, message>> that stands for prefix + the hex digest of
\* HMAC-SHA256(key, message): two headers are equal exactly when prefix, key and
\* message are; <<>> is no header.  A body the JSON parser captured none of is "".

\* the same with the comparison of the lengths only
verifySignatureLengthOnly(secret, signature, rawBody) ==
  IF secret = "" THEN "next"
  ELSE IF signature = <<>> THEN "401"
  ELSE IF signature[1] # "sha256=" THEN "401"
  ELSE "next"

\* verifySignature, and verifyGitHubSignature with githubSecret
verifySignature(secret, signature, rawBody) ==
  LET expectedSig == <<"sha256=", secret, rawBody>>
  IN IF secret = "" THEN "next"
     ELSE IF signature = <<>> THEN "401"
     ELSE IF signature # expectedSig THEN "401"
     ELSE "next"

\* app.post('/webhook/jira', verifySignature, ...) and app.post('/webhook/github',
\* verifyGitHubSignature, ...): after next(), respond 200 and hand the payload
\* to the engine
Post ==
  \E secret \in {"", "s1", "s2"}, rawBody \in {"", "b1", "b2"},
     signature \in {<<>>} \cup ({"sha256=", "sha1="} \X {"s1", "s2"} \X {"", "b1", "b2"}) :
    LET verified == verifySignature(secret, signature, rawBody) = "next"
    IN /\ fn' = [op |-> "post", secret |-> secret, signature |-> signature,
                 rawBody |-> rawBody,
                 status |-> IF verified THEN "200" ELSE "401",
                 handleWebhook |-> verified]
       /\ UNCHANGED <<bvars, ci, acct, activeWorktrees, db>>

\* Errors and retries (src/src/utils/errors.ts).  An error is what was thrown:
\* whether it is an object, its HTTP status (0: none) and, for its message,
\* the set of the phrases below that the message contains.

\* msg.toLowerCase().includes('merge conflict'): the message has the phrase
\* in some mix of cases; msg.includes(x) for the other phrases: as written

isTransientError(error) ==
  /\ error.object
  /\ \/ error.status \in {429, 502, 503, 504}
     \/ error.msg \cap {"ECONNRESET", "ETIMEDOUT", "ENOTFOUND", "socket hang up",
                        "network"} # {}

classifyError(error) ==
  LET msg == IF error.object THEN error.msg ELSE {}
      status == IF error.object THEN error.status ELSE 0
  IN IF status \in {429, 502, 503, 504} THEN "transient"
     ELSE IF msg \cap {"ECONNRESET", "ETIMEDOUT", "ENOTFOUND", "socket hang up"} # {}
     THEN "transient"
     ELSE IF msg \cap {"merge conflict", "Merge Conflict", "CONFLICT"} # {} THEN "conflict"
     ELSE IF msg \cap {"budget", "max_turns", "Budget exceeded"} # {} THEN "budget"
     ELSE "permanent"

\* the same, retrying whatever was thrown
RECURSIVE withRetryAnyError(_, _, _)
withRetryAnyError(fnCalls, maxAttempts, attempt) ==
  IF attempt > maxAttempts
  THEN [calls |-> attempt - 1, threw |-> TRUE, of |-> 0]
  ELSE IF ~fnCalls[attempt].threw THEN [calls |-> attempt, threw |-> FALSE, of |-> attempt]
  ELSE IF attempt = maxAttempts
  THEN [calls |-> attempt, threw |-> TRUE, of |-> attempt]
  ELSE withRetryAnyError(fnCalls, maxAttempts, attempt + 1)

\* withRetry with the default retryableCheck, from the given attempt on: fnCalls is
\* the sequence of what the calls of fn() do, one after the other.  The outcome
\* is the number of calls made and the call whose result is returned or whose
\* error is thrown (of 0: new Error('Unreachable')).
RECURSIVE withRetry(_, _, _)
withRetry(fnCalls, maxAttempts, attempt) ==
  IF attempt > maxAttempts
  THEN [calls |-> attempt - 1, threw |-> TRUE, of |-> 0]
  ELSE IF ~fnCalls[attempt].threw THEN [calls |-> attempt, threw |-> FALSE, of |-> attempt]
  ELSE IF attempt = maxAttempts \/ ~isTransientError(fnCalls[attempt].error)
  THEN [calls |-> attempt, threw |-> TRUE, of |-> attempt]
  ELSE withRetry(fnCalls, maxAttempts, attempt + 1)

\* a call of withRetry: each call of fn() returns, or throws a 503, a 500 or
\* an error whose message has "network" in it
Retry ==
  \E maxAttempts \in 0..MaxAttempts :
    \E fn0 \in [1..maxAttempts ->
                  {[threw |-> FALSE, error |-> [object |-> TRUE, status |-> 0, msg |-> {}]]}
                  \cup [threw : {TRUE},
                        error : {[object |-> TRUE, status |-> 503, msg |-> {}],
                                 [object |-> TRUE, status |-> 500, msg |-> {}],
                                 [object |-> TRUE, status |-> 0, msg |-> {"network"}]}]] :
      /\ fn' = [op |-> "withRetry", fn |-> fn0, maxAttempts |-> maxAttempts,
                out |-> withRetry(fn0, maxAttempts, 1)]
      /\ UNCHANGED <<bvars, ci, acct, activeWorktrees, db>>

\* an error is classified and tested for a retry
Classify ==
  \E object \in BOOLEAN, status \in {0, 429, 500, 503},
     msg \in SUBSET {"ECONNRESET", "network", "merge conflict", "Merge Conflict",
                     "CONFLICT", "budget"} :
    LET error == [object |-> object, status |-> status, msg |-> msg]
    IN /\ fn' = [op |-> "classifyError", error |-> error,
                 category |-> classifyError(error),
                 transient |-> isTransientError(error)]
       /\ UNCHANGED <<bvars, ci, acct, activeWorktrees, db>>

-----------------------------------------------------------------------------
\* ClaudeService: the worktrees (src/src/services/claude.ts).  The tasks are
\* the callers of the staging merge.  canAcceptTask has no caller.

\* handleImplementation: branchName = this.claude.createBranch(issueKey, summary)
createBranch(issueKey) ==
  /\ activeWorktrees' = activeWorktrees \cup {issueKey}
  /\ UNCHANGED <<bvars, ci, acct, fn, db>>

\* handleTestFeedback: the rework of a task on its existing branch
prepareReworkWorktree(issueKey) ==
  /\ activeWorktrees' = activeWorktrees \cup {issueKey}
  /\ UNCHANGED <<bvars, ci, acct, fn, db>>

\* cleanup(): cleanupWorktree for every entry of activeWorktrees (each deletes
\* its entry; a failing git worktree remove is swallowed)
cleanup ==
  /\ activeWorktrees' = {}
  /\ UNCHANGED <<bvars, ci, acct, fn, db>>

\* the finally block of handleImplementation and of handleTestFeedback for
\* issueKey, which has its worktree: this.claude.cleanup()
handlerFinally(issueKey) ==
  /\ issueKey \in activeWorktrees
  /\ cleanup

-----------------------------------------------------------------------------
\* StateManager, statement by statement (src/src/services/state.ts 41-84):
\* the table is a set of rows, and a call leaves its arguments, the rows it
\* found and whether it threw in fn.  Of the columns, two that a caller
\* supplies and the two that hold times.

\* existing = getTask(issueKey); existing: UPDATE tasks SET the supplied columns
\* and updated_at = datetime('now') WHERE issue_key = ?; else INSERT INTO
\* tasks (issue_key and the supplied columns), the others from the schema:
\* phase is NOT NULL and has no default, created_at and updated_at default to
\* datetime('now').
UpsertTask(issueKey, data) ==
  \E tick \in 0..1 :
    LET t == IF db.now + tick > MaxDbTime THEN MaxDbTime ELSE db.now + tick
        existing == {r \in db.tasks : r.issue_key = issueKey}
        threw == existing = {} /\ "phase" \notin DOMAIN data
        update(r) == [c \in DOMAIN r |-> IF c = "updated_at" THEN t
                                         ELSE IF c \in DOMAIN data THEN data[c]
                                         ELSE r[c]]
        insert == [issue_key |-> issueKey,
                   phase |-> data.phase,
                   branch_name |-> IF "branch_name" \in DOMAIN data
                                   THEN data.branch_name ELSE Null,
                   created_at |-> t,
                   updated_at |-> t]
    IN /\ db' = [now |-> t,
                 tasks |-> IF existing # {}
                           THEN {IF r \in existing THEN update(r) ELSE r : r \in db.tasks}
                           ELSE IF threw THEN db.tasks
                           ELSE db.tasks \cup {insert}]
       /\ fn' = [op |-> "upsertTask", issueKey |-> issueKey, data |-> data,
                 before |-> db.tasks, threw |-> threw]
       /\ UNCHANGED <<bvars, ci, acct, activeWorktrees>>

\* DELETE FROM tasks WHERE issue_key = ?
DeleteTask(issueKey) ==
  /\ db' = [db EXCEPT !.tasks = {r \in @ : r.issue_key # issueKey}]
  /\ fn' = [op |-> "deleteTask", issueKey |-> issueKey]
  /\ UNCHANGED <<bvars, ci, acct, activeWorktrees>>

-----------------------------------------------------------------------------

Init ==
  /\ store = [k \in Keys |-> NoRow]
  /\ processing = {}
  /\ jira = [k \in Keys |-> [status |-> "to do", assignee |-> "human", comments |-> <<>>,
                             label |-> FALSE, pr |-> "none", prc |-> FALSE,
                             branch |-> FALSE, rfc |-> "", reassigned |-> FALSE]]
  /\ now = 0
  /\ th = [t \in Threads |-> Idle]
  /\ g = [k \in Keys |-> [c \in 1..MaxComments |-> NoHistory]]
  /\ moves = 0
  /\ stagingLock = FALSE
  /\ repo = [head |-> "default", hasLocal |-> FALSE, localTip |-> {}, merging |-> FALSE,
             hasRemote |-> FALSE, remoteTip |-> {}, branches |-> Callers]
  /\ mc = [c \in Callers |-> NoCall]
  /\ ci = NoCi
  /\ acct = NoAcct
  /\ fn = [op |-> "none"]
  /\ activeWorktrees = {}
  /\ db = [tasks |-> {}, now |-> 0]

Next ==
  \/ \E k \in Keys, kind \in {"approve", "feedback"}, w \in Slots : HumanComment(k, kind, w)
  \/ \E k \in Keys, who \in {"claude", "human"}, w \in Slots : HumanAssign(k, who, w)
  \/ \E k \in Keys, s \in {"to do", "done"}, w \in Slots : HumanTransition(k, s, w)
  \/ \E t \in Webhooks : handleWebhook(t)
  \/ \E t \in Pollers : RecStart(t)
  \/ \E t \in Pollers : RecFind(t)
  \/ \E t \in Pollers : RecNextStep(t)
  \/ \E t \in Pollers : RecNewTask(t)
  \/ \E t \in Pollers : RecPick(t)
  \/ \E t \in Pollers : RecIssue(t)
  \/ \E t \in Pollers : RecFind5(t)
  \/ \E t \in Pollers : RecMerge(t)
  \/ \E t \in Pollers : RecEnd(t)
  \/ \E t \in Threads : NtTransition(t)
  \/ \E t \in Threads : NtPlan(t)
  \/ \E t \in Threads : NtPost(t)
  \/ \E t \in Threads : NtCatch(t)
  \/ \E t \in Threads : PfPlan(t)
  \/ \E t \in Threads : PfPost(t)
  \/ \E t \in Threads : PfFailed(t)
  \/ \E t \in Threads : ImStart(t)
  \/ \E t \in Threads : ImAgent(t)
  \/ \E t \in Threads : ImCi(t)
  \/ \E t \in Threads : ImPr(t)
  \/ \E t \in Threads : ImFinish(t)
  \/ \E t \in Threads : ImCatch(t)
  \/ \E t \in Threads : TfStart(t)
  \/ \E t \in Threads : TfAgent(t)
  \/ \E t \in Threads : TfClarify(t)
  \/ \E t \in Threads : TfCi(t)
  \/ \E t \in Threads : TfFinish(t)
  \/ \E t \in Threads : TfCatch(t)
  \/ \E t \in Threads : MgIssue(t)
  \/ \E t \in Threads : MgGetPr(t)
  \/ \E t \in Threads : MgClosed(t)
  \/ \E t \in Threads : MgMerge(t)
  \/ \E t \in Threads : MgCleanup(t)
  \/ \E t \in Threads : MgCatch(t)

Spec == Init /\ [][Next]_vars

\* the staging merges of concurrently running tasks
NextMerge ==
  \/ \E c \in Callers : mergeIntoStaging(c)
  \/ \E c \in Callers : MsWake(c)
  \/ \E c \in Callers : MsFetchBranch(c)
  \/ \E c \in Callers : MsFetchStaging(c)
  \/ \E c \in Callers : MsCheckoutStaging(c)
  \/ \E c \in Callers : MsPullStaging(c)
  \/ \E c \in Callers : MsCheckoutDefault(c)
  \/ \E c \in Callers : MsPullDefault(c)
  \/ \E c \in Callers : MsCreateStaging(c)
  \/ \E c \in Callers : MsMerge(c)
  \/ \E c \in Callers : MsAbort(c)
  \/ \E c \in Callers : MsRestore(c)
  \/ \E c \in Callers : MsPush(c)
  \/ \E c \in Callers : MsFinal(c)

SpecMerge == Init /\ [][NextMerge]_vars

\* The review of a posted plan and of its implementation: handleNewTask has
\* posted the plan of every issue, and from here on people only comment.  A
\* comment of kind "bot" is one whose text begins with the robot marker, as
\* the engine's own comments do; Jira sends a webhook for it as for any other.
InitFeedback ==
  /\ store = [k \in Keys |-> [NoRow EXCEPT !.phase = "plan-posted",
                                          !.plan_posted_at = 0, !.updated_at = 0]]
  /\ processing = {}
  /\ jira = [k \in Keys |-> [status |-> "in progress", assignee |-> "human",
                             comments |-> <<>>, label |-> FALSE, pr |-> "none",
                             prc |-> FALSE, branch |-> FALSE, rfc |-> "", reassigned |-> FALSE]]
  /\ now = 0
  /\ th = [t \in Threads |-> Idle]
  /\ g = [k \in Keys |-> [c \in 1..MaxFollowUps |-> NoHistory]]
  /\ moves = 0
  /\ stagingLock = FALSE
  /\ repo = [head |-> "default", hasLocal |-> FALSE, localTip |-> {}, merging |-> FALSE,
             hasRemote |-> FALSE, remoteTip |-> {}, branches |-> Callers]
  /\ mc = [c \in Callers |-> NoCall]
  /\ ci = NoCi
  /\ acct = NoAcct
  /\ fn = [op |-> "none"]
  /\ activeWorktrees = {}
  /\ db = [tasks |-> {}, now |-> 0]

NextFeedback ==
  \/ \E k \in Keys, kind \in {"approve", "feedback"}, w \in Slots : HumanFollowUp(k, kind, w)
  \/ \E k \in Keys, w \in Slots : Comment(k, "bot", w, MaxFollowUps)
  \/ \E t \in Webhooks : handleWebhook(t)
  \/ \E t \in Pollers : RecStart(t)
  \/ \E t \in Pollers : RecFind(t)
  \/ \E t \in Pollers : RecNextStep(t)
  \/ \E t \in Pollers : RecPick(t)
  \/ \E t \in Pollers : RecIssue(t)
  \/ \E t \in Pollers : RecFind5(t)
  \/ \E t \in Pollers : RecEnd(t)
  \/ \E t \in Threads : PfPlan(t)
  \/ \E t \in Threads : PfPost(t)
  \/ \E t \in Threads : PfFailed(t)
  \/ \E t \in Threads : ImStart(t)
  \/ \E t \in Threads : ImAgent(t)
  \/ \E t \in Threads : ImCi(t)
  \/ \E t \in Threads : ImPr(t)
  \/ \E t \in Threads : ImFinish(t)
  \/ \E t \in Threads : ImCatch(t)
  \/ \E t \in Threads : TfStart(t)
  \/ \E t \in Threads : TfAgent(t)
  \/ \E t \in Threads : TfClarify(t)
  \/ \E t \in Threads : TfCi(t)
  \/ \E t \in Threads : TfFinish(t)
  \/ \E t \in Threads : TfCatch(t)

SpecFeedback == InitFeedback /\ [][NextFeedback]_vars

\* The handler runs of one task, one after the other, each with the costs of
\* its agent runs (the last argument of the two long cycles: the auto-fixes).
NextCost ==
  \/ \E c \in Costs, ok \in BOOLEAN : CostNewTask(c, ok)
  \/ \E c \in Costs, ok \in BOOLEAN : CostPlanFeedback(c, ok)
  \/ \E c \in Costs, f \in Costs, o \in {"ok", "fails", "catch_throws"} :
        CostImplementation(c, f, o)
  \/ \E c \in Costs, f \in Costs, ok \in BOOLEAN : CostTestFeedback(c, f, ok)

SpecCost == Init /\ [][NextCost]_vars

\* One call of waitForStagingWorkflow after the other.  The event loop runs
\* every continuation whose promise or timer has settled, and every call to
\* GitHub, Jira and the agent settles.
NextCi ==
  \/ \E configured \in BOOLEAN, m \in 0..MaxRetries : waitForStagingWorkflow(configured, m)
  \/ CiFind
  \/ CiPoll
  \/ CiLogs
  \/ CiFix

SpecCi == Init /\ [][NextCi]_vars /\ WF_vars(NextCi)

\* The functions that keep no state, called one after the other.
NextServices ==
  \/ PlanComment
  \/ Post
  \/ \E issueKey \in Callers : createBranch(issueKey)
  \/ \E issueKey \in Callers : prepareReworkWorktree(issueKey)
  \/ \E issueKey \in Callers : handlerFinally(issueKey)
  \/ cleanup

\* the error utilities on their own
SpecErrors == Init /\ [][Retry \/ Classify]_vars

SpecServices == Init /\ [][NextServices]_vars

\* Calls of the StateManager, one after the other, for two issue keys: data
\* has any of the columns phase and branch_name ("" and 0: not supplied).
SpecStore ==
  /\ Init
  /\ [][\/ \E issueKey \in {"K1", "K2"}, phase \in {"", "plan-posted", "test"},
              branch_name \in {0, Null, 1} :
             UpsertTask(issueKey,
                        CASE phase # "" /\ branch_name # 0
                               -> [phase |-> phase, branch_name |-> branch_name]
                          [] phase # "" /\ branch_name = 0 -> [phase |-> phase]
                          [] phase = "" /\ branch_name # 0 -> [branch_name |-> branch_name]
                          [] OTHER -> <<>>)
        \/ \E issueKey \in {"K1", "K2"} : DeleteTask(issueKey)]_vars

-----------------------------------------------------------------------------
\* Where a thread is inside a handler, and the key it holds there.

NtPcs == {"nt_transition", "nt_plan", "nt_post", "nt_catch"}

PfPcs == {"pf_plan", "pf_post", "pf_failed"}

ImPcs == {"im_start", "im_agent", "im_ci", "im_pr", "im_finish", "im_catch"}

TfPcs == {"tf_start", "tf_agent", "tf_clarify", "tf_ci", "tf_finish", "tf_catch"}

MgPcs == {"mg_issue", "mg_getpr", "mg_closed", "mg_merge", "mg_cleanup", "mg_catch"}

HandlerPcs == NtPcs \cup PfPcs \cup ImPcs \cup TfPcs \cup MgPcs

\* thread t runs a handler for issue k
Handling(t, k) == th[t].pc \in HandlerPcs /\ th[t].key = k

\* the keys thread t has added to the processing set and not yet deleted
Held(t) ==
  IF th[t].pc \in MgPcs THEN {mergeKey(th[t].key)}
  ELSE IF th[t].pc \in HandlerPcs THEN {th[t].key}
  ELSE {}

\* the next step of webhook t calls handleNewTask for k
IssueEventIsNewTask(t, k) ==
  /\ t \in Webhooks
  /\ th[t].pc = "deliver" /\ th[t].evt = "issue" /\ th[t].key = k
  /\ ~th[t].pdone
  /\ th[t].pstatus = "to do" /\ th[t].passignee = "claude"
  /\ ~(Exists(store, k) /\ store[k].phase \in {"failed", "approved"})

\* the next step of poll t may call handleNewTask for k
PollIsNewTask(t, k) ==
  /\ t \in Pollers
  /\ th[t].pc = "loop" /\ th[t].rstep = 1
  /\ Item(k, Null) \in th[t].rtodo

\* thread t has just called handleNewTask for k
NewTaskCalled(t, k) ==
  \/ IssueEventIsNewTask(t, k) /\ th'[t].pc # "deliver"
  \/ PollIsNewTask(t, k) /\ Item(k, Null) \notin th'[t].rtodo

-----------------------------------------------------------------------------
\* C1: for every issue key, at most one handler execution (new task, re-plan,
\* implementation, rework, merge) is in flight at any time; a merge never
\* overlaps an implementation or a rework of the same issue.
C1_OneHandlerPerKey ==
  \A k \in Keys : Cardinality({t \in Threads : Handling(t, k)}) <= 1

\* C2: the processing set holds exactly the keys of the handlers in flight: a
\* handler that returned or threw has deleted its key, and with no handler in
\* flight the set is empty.
C2_KeysReleased == processing = UNION {Held(t) : t \in Threads}

\* an implementation threw out of its catch block (the failure comment could
\* not be posted, so the phase stayed approved); nothing is in flight
C2_Witness ==
  /\ \A t \in Threads : th[t].pc = "idle"
  /\ processing = {}
  /\ \E k \in Keys : store[k].phase = "approved" /\ jira[k].assignee = "claude"

\* C3: between taking the staging lock and releasing it a call is alone in
\* its fetch/checkout/merge/push sequence, whatever the number of waiters.
C3_MergesExclusive == Cardinality({c \in Callers : InMerge(c)}) <= 1

\* one call is about to push while the two others wait for the lock
C3_Witness ==
  \E c \in Callers :
    /\ mc[c].pc = "push"
    /\ \A d \in Callers \ {c} : mc[d].pc = "sleep"

\* C4: the staging lock is taken only while a call is between acquiring it and
\* its end; every call that ended, however it ended, left the lock free.
C4_LockFreed == stagingLock => \E c \in Callers : InMerge(c)

\* three calls ended, by a conflict, by a failed merge --abort and by a failed
\* push, and the lock is free
C4_Witness ==
  /\ ~stagingLock
  /\ \E a, b, c \in Callers :
       /\ mc[a].pc = "idle" /\ mc[a].result = "conflict"
       /\ mc[b].pc = "idle" /\ mc[b].result = "abort"
       /\ mc[c].pc = "idle" /\ mc[c].result = "push"

\* C5: when the merge stops on a conflict, merge --abort ends the merge in
\* progress, the call ends with the conflict error, and from the merge attempt
\* to the end of the call nothing is pushed, local and remote staging keep the
\* tips they had before the attempt, and the task branch is still there.
C5_ConflictAborted ==
  [][\A c \in Callers :
       LET untouched == /\ repo'.localTip = mc[c].pre.local
                        /\ repo'.hasRemote = mc[c].pre.hasRemote
                        /\ repo'.remoteTip = mc[c].pre.remote
                        /\ c \in repo'.branches
       IN /\ (mc[c].pc = "abort" /\ repo.merging /\ mc'[c] # mc[c])
               => (mc'[c].pc = "restore" /\ ~repo'.merging /\ untouched)
          /\ (mc[c].pc = "restore" /\ mc'[c] # mc[c])
               => (/\ mc'[c].pc = "idle" /\ mc'[c].result = "conflict"
                   /\ ~repo'.merging /\ ~stagingLock' /\ untouched)]_vars

\* a call ended with the conflict error while staging carries another task's
\* merge, locally and on the remote
C5_Witness ==
  \E c \in Callers :
    /\ mc[c].pc = "idle" /\ mc[c].result = "conflict"
    /\ ~repo.merging
    /\ repo.remoteTip # {} /\ repo.remoteTip = mc[c].pre.remote
    /\ repo.localTip = mc[c].pre.local /\ c \notin repo.localTip

\* C6: every change of a stored phase follows the state machine.  The phases
\* planning, implementing and merging are never stored, so an edge through
\* one of them counts as an edge of the machine ("none": no record).
C6_PhaseEdges ==
  [][\A k \in Keys :
       store'[k].phase # store[k].phase =>
         <<store[k].phase, store'[k].phase>> \in
            {<<"none", "plan-posted">>, <<"plan-posted", "approved">>,
             <<"approved", "test">>, <<"approved", "failed">>,
             <<"failed", "approved">>, <<"test", "none">>}]_vars

\* C7: a second new-task call for a task whose plan is posted does nothing:
\* no handler starts (no agent run, no comment), and the record, the issue
\* and the processing set are as before.
C7_SecondNewTaskNoOp ==
  [][\A t \in Threads, k \in Keys :
       (NewTaskCalled(t, k) /\ store[k].phase = "plan-posted")
         => /\ th'[t].pc \notin HandlerPcs
            /\ store' = store /\ jira' = jira /\ processing' = processing]_vars

\* the poll listed the task, a webhook planned it meanwhile and posted the
\* plan, and the poll is about to call handleNewTask for it again
C7_Witness ==
  \E t \in Pollers, k \in Keys :
    /\ PollIsNewTask(t, k)
    /\ store[k].phase = "plan-posted"
    /\ k \notin processing

\* C8: a new-task call for a task whose record is in plan-posted or a later
\* phase does nothing.
C8_LaterPhasesIgnored ==
  [][\A t \in Threads, k \in Keys :
       (NewTaskCalled(t, k) /\ store[k].phase \in {"plan-posted", "approved", "test"})
         => /\ th'[t].pc \notin NtPcs
            /\ store' = store /\ jira' = jira /\ processing' = processing]_vars

\* C9: a human comment dispatched by the webhook and by the poll causes at
\* most one agent run.
C9_OneRunPerComment ==
  \A k \in Keys, c \in 1..MaxComments : Cardinality(g[k][c].by) <= 1

\* C10: an approval comment is taken as an approval at most once.
C10_ApprovedOnce ==
  \A k \in Keys, c \in 1..MaxComments : g[k][c].approved <= 1

\* thread t finishes (returns or throws out of) the handler whose steps are pcs
Leaves(t, pcs) == th[t].pc \in pcs /\ th'[t].pc \notin pcs

\* C11: whenever handlePlanFeedback has processed a feedback (non-approval)
\* comment, the record is in phase plan-posted and its plan_posted_at has
\* moved to or past the time of that comment, so that the same comment is no
\* longer newer than the watermark.
C11_ReplanAdvancesWatermark ==
  [][\A t \in Threads, k \in Keys :
       (Leaves(t, PfPcs) /\ th[t].key = k)
       => /\ store'[k].phase = "plan-posted"
          /\ store'[k].plan_posted_at >= jira[k].comments[th[t].cmt].created]_vars

\* C12: waitForStagingWorkflow never makes more than maxRetries auto-fix
\* cycles; when the workflow run failed on every attempt it has made exactly
\* maxRetries of them and then throws its failure; and every call ends.
C12_Bounded ==
  /\ ci.fixes <= ci.maxRetries
  /\ ci.pc # "idle" => ci.attempt <= totalAttempts(ci.maxRetries)
  /\ ci.fails > ci.maxRetries => ci.result = "exhausted"
  /\ ci.result = "exhausted" =>
       ci.fixes = ci.maxRetries /\ ci.fails = totalAttempts(ci.maxRetries)

C12_RetriesBounded == []C12_Bounded /\ ((ci.pc # "idle") ~> (ci.pc = "idle"))

\* every attempt failed, two fixes were pushed in between, and the call threw
C12_Witness ==
  /\ ci.pc = "idle"
  /\ ci.result = "exhausted"
  /\ ci.maxRetries = 2
  /\ ci.fixes = 2
  /\ ci.fails = 3

\* thread t runs an entry point for issue k in this step: a webhook is
\* handled, or the poll reaches k in one of its five loops
Enters(t, k) ==
  \/ th[t].pc \in {"deliver", "issue"} /\ th[t].key = k /\ th'[t].pc # th[t].pc
  \/ /\ th[t].pc = "loop" /\ th[t].rstep \in {1, 5}
     /\ Item(k, Null) \in th[t].rtodo /\ Item(k, Null) \notin th'[t].rtodo

\* C13: an entry point (issue webhook, comment webhook, reconciliation step)
\* that runs for an issue whose key is held is dropped: no row is written, no
\* handler (so no agent, tracker or code-host call) is started, and the
\* tracker is left as it is.
C13_HeldKeyDropped ==
  [][\A t \in Threads, k \in Keys :
       (Enters(t, k) /\ k \in processing)
       => /\ store' = store
          /\ jira' = jira
          /\ th'[t].pc \notin HandlerPcs]_vars

\* C14: a human comment on a task in plan-posted or test whose webhook was
\* dropped because the key was held, that no handler has taken since and that
\* no newer comment supersedes, is still newer than the watermark when the
\* task is at rest again, so that the next reconciliation pass dispatches it.
C14_DroppedCommentPending ==
  \A k \in Keys : \A c \in 1..Len(jira[k].comments) :
    LET dispatched == \/ g[k][c].done
                      \/ \E t \in Threads : Handling(t, k) /\ th[t].cmt = c
        watermark == Watermark(store[k], IF store[k].phase = "test"
                                         THEN "last_feedback_check"
                                         ELSE "plan_posted_at")
    IN ( /\ g[k][c].dropped
         /\ ~dispatched
         /\ c = Len(jira[k].comments)
         /\ store[k].phase \in {"plan-posted", "test"}
         /\ k \notin processing )
       => jira[k].comments[c].created > watermark

\* C15: the stored cost_usd of a record never decreases, whatever handler
\* runs for the task (planning again, re-plan, implementation, rework, retry).
C15_CostNeverDecreases ==
  [][acct.phase # "none" => orZero(acct'.cost_usd) >= orZero(acct.cost_usd)]_vars

\* C16: for a task that has a record, the stored cost_usd is the sum of the
\* costs of all agent runs made for it, successful or not, auto-fixes included.
C16_CostIsSumOfRuns ==
  acct.phase # "none" => orZero(acct.cost_usd) = acct.spent

\* C17: whenever handleImplementation ends after a failure in its chain (it
\* leaves through its catch block), the record is in phase failed and the
\* issue is no longer assigned to the automation, also when the error comment
\* could not be posted.
C17_FailureRecorded ==
  [][\A t \in Threads, k \in Keys :
       (Leaves(t, {"im_catch"}) /\ th[t].key = k)
       => /\ store'[k].phase = "failed"
          /\ jira'[k].assignee # "claude"]_vars

\* C18: a rework that fails for another reason than a merge conflict leaves
\* the record in phase failed; one that fails on a merge conflict leaves it in
\* phase test.
C18_ReworkFailureRecorded ==
  [][\A t \in Threads, k \in Keys :
       (Leaves(t, {"tf_catch"}) /\ th[t].key = k)
       => store'[k].phase = IF th[t].err = "conflict" THEN "test" ELSE "failed"]_vars

\* C19: when the implementation agent succeeds and nothing is left to push,
\* the cycle goes to its failure path without a merge into staging and
\* without a pull request, and the handler leaves the record in phase failed.
C19_NoChangesFails ==
  [][\A t \in Threads, k \in Keys :
       th[t].key = k =>
         /\ (th[t].pc = "im_agent" /\ th'[t].err = "no changes")
            => th'[t].pc = "im_catch" /\ jira' = jira
         /\ (Leaves(t, {"im_catch"}) /\ th[t].err = "no changes")
            => store'[k].phase = "failed"]_vars

\* C20: once a handler run for a human comment is over, whatever its outcome,
\* no reconciliation pass hands the same comment to a handler again.
C20_NoSecondDispatch ==
  [][\A t \in Pollers, k \in Keys : \A c \in DOMAIN g[k] :
       ( /\ th[t].pc \notin HandlerPcs
         /\ th'[t].pc \in HandlerPcs
         /\ th'[t].key = k
         /\ th'[t].cmt = c )
       => ~g[k][c].done]_vars

\* C21: a comment on a posted plan is an approval exactly when it begins with
\* the keyword "approve" in any mix of cases, and the reviewer notes that are
\* stored are the text that follows the keyword: of "approve, keep it minimal"
\* the notes are "keep it minimal", without the separator.
C21_NotesFollowKeyword ==
  fn.op = "approval" =>
    LET text == fn.text
        keyword == <<"a", "p", "p", "r", "o", "v", "e">>
        capitals == <<"A", "P", "P", "R", "O", "V", "E">>
        isApprove == /\ Len(text) >= 7
                     /\ \A i \in 1..7 : text[i] \in {keyword[i], capitals[i]}
        follows == {i \in 8..Len(text) : text[i] \notin {" ", ","}}
    IN /\ (fn.out.phase = "approved") <=> isApprove
       /\ isApprove =>
            fn.out.reviewer_notes =
              IF follows = {} THEN <<"null">>
              ELSE SubSeq(text, CHOOSE i \in follows : \A j \in follows : i <= j, Len(text))

\* C22: a run of handleMerge calls mergePullRequest at most once, and only for
\* a pull request it found open; when the calls after the merge succeed, the
\* run ends with the branch of the pull request deleted, the pr-pending label
\* removed, the row deleted and the merge key released.  For a pull request it
\* found closed or merged the run makes no merge call, and ends with the label
\* removed and the row deleted.
C22_MergeCleansUp ==
  [][\A t \in Threads :
       LET k == th[t].key
           cleaned == /\ ~jira'[k].label
                      /\ ~Exists(store', k)
                      /\ mergeKey(k) \notin processing'
       IN /\ (th'[t].pc = "mg_merge" /\ th[t].pc # "mg_merge")
               => th[t].pc = "mg_getpr" /\ jira[k].pr = "open"
          /\ (th[t].pc = "mg_merge" /\ th'[t].pc = "mg_cleanup")
               => jira[k].pr = "open" /\ jira'[k].pr = "merged"
          /\ (th[t].pc = "mg_cleanup" /\ th'[t].pc \notin MgPcs)
               => cleaned /\ ~jira'[k].branch
          /\ (th[t].pc = "mg_getpr" /\ th'[t].pc = "mg_closed") => jira[k].pr # "open"
          /\ (th[t].pc = "mg_closed" /\ th'[t].pc \notin MgPcs)
               => cleaned /\ jira'[k].pr = jira[k].pr]_vars

\* a merged pull request with its branch, its label and its row gone
C22_Witness ==
  \E k \in Keys :
    /\ jira[k].pr = "merged"
    /\ ~jira[k].branch
    /\ ~jira[k].label
    /\ ~Exists(store, k)

\* C23: the tasks that have a worktree are never more than the configured
\* maximum of concurrent tasks (a worktree is made only while canAcceptTask
\* holds).
C23_CeilingKept == Cardinality(activeWorktrees) <= maxConcurrentTasks

\* C24: upsertTask on a key that has a row changes the supplied columns, sets
\* updated_at to the time of the call and leaves every other column of the
\* row, created_at among them, as it was; on a key that has no row it inserts
\* one; the rows of other keys stay as they are, and no key ever has two rows.
C24_UpsertFrame ==
  /\ \A k \in {"K1", "K2"} : Cardinality({r \in db.tasks : r.issue_key = k}) <= 1
  /\ fn.op = "upsertTask" =>
       LET old == {r \in fn.before : r.issue_key = fn.issueKey}
           new == {r \in db.tasks : r.issue_key = fn.issueKey}
       IN /\ Cardinality(new) = 1
          /\ {r \in db.tasks : r.issue_key # fn.issueKey}
               = {r \in fn.before : r.issue_key # fn.issueKey}
          /\ \A r \in old, r2 \in new :
               \A c \in DOMAIN r :
                 r2[c] = IF c = "updated_at" THEN db.now
                         ELSE IF c \in DOMAIN fn.data THEN fn.data[c]
                         ELSE r[c]

\* C25: with a secret configured, the server hands a request to the engine
\* only if its signature header is "sha256=" and the HMAC-SHA256 of the raw
\* body under that secret; a request without the header or with another one
\* is answered 401 and does not reach the engine; without a secret every
\* request is handed on.
C25_SignedOnly ==
  fn.op = "post" =>
    /\ fn.handleWebhook <=> \/ fn.secret = ""
                            \/ fn.signature = <<"sha256=", fn.secret, fn.rawBody>>
    /\ fn.status = IF fn.handleWebhook THEN "200" ELSE "401"

\* a signed request is handed on, with a secret configured
C25_Witness ==
  /\ fn.op = "post"
  /\ fn.secret # ""
  /\ fn.handleWebhook

C28_NewestAboveWatermark ==
  [][\A t \in Pollers :
       /\ (th[t].pc = "loop" /\ th'[t].pc = "loop" /\ th'[t].rstep \in {2, 3}
             /\ th'[t].rstep # th[t].rstep)
            => \A it \in th'[t].rtodo :
                 LET row == store[it.key]
                     stored == IF th'[t].rstep = 2 THEN row.plan_posted_at
                               ELSE row.last_feedback_check
                 IN /\ row.phase = IF th'[t].rstep = 2 THEN "plan-posted" ELSE "test"
                    /\ it.wm = IF stored # Null THEN stored ELSE row.updated_at
       /\ (th[t].pc = "issue" /\ th'[t].pc \in HandlerPcs /\ th'[t].cmt # 0)
            => LET comments == jira[th[t].key].comments
                   c == th'[t].cmt
               IN /\ th[t].rstep \in {2, 3}
                  /\ th'[t].key = th[t].key
                  /\ comments[c].kind # "bot"
                  /\ \A j \in (c + 1)..Len(comments) : comments[j].kind = "bot"
                  /\ comments[c].created > th[t].wm]_vars

\* a pass has handed on a comment that lies behind a newer comment of the
\* automation
C28_Witness ==
  \E t \in Pollers :
    LET comments == jira[th[t].key].comments
    IN /\ th[t].pc \in {"pf_plan", "tf_start", "im_start"}
       /\ th[t].cmt # 0
       /\ th[t].cmt < Len(comments)
       /\ comments[th[t].cmt].created > th[t].wm
       /\ th[t].wm >= 0

\* C29: a comment whose text begins with the automation's marker is never
\* handed to handlePlanFeedback or handleTestFeedback, neither by the comment
\* webhook nor by the scan of a reconciliation pass: no handler runs for it,
\* and none has run or was turned away for it.
C29_OwnCommentsSkipped ==
  \A k \in Keys :
    \A c \in 1..Len(jira[k].comments) :
      jira[k].comments[c].kind = "bot" =>
        /\ g[k][c] = NoHistory
        /\ \A t \in Threads :
             ~(th[t].pc \in HandlerPcs /\ th[t].key = k /\ th[t].cmt = c)

\* the webhook of a comment of the automation is delivered for a task under
\* review whose key is free, after a person's comment has been handled
C29_Witness ==
  \E k \in Keys, w \in Webhooks :
    /\ th[w].pc = "deliver"
    /\ th[w].evt = "comment"
    /\ th[w].key = k
    /\ jira[k].comments[th[w].cmt].kind = "bot"
    /\ store[k].phase \in {"plan-posted", "test"}
    /\ k \notin processing
    /\ \E c \in 1..(th[w].cmt - 1) : g[k][c].done

\* C30: of every row, branch_name and worktree_path are both set or both
\* null, and they are set only while the phase is implementing or test.
C30_WorkspaceWhileActive ==
  \A k \in Keys :
    Exists(store, k) =>
      /\ store[k].branch_name = Null <=> store[k].worktree_path = Null
      /\ store[k].branch_name # Null => store[k].phase \in {"implementing", "test"}

\* C31: when planning fails in handleNewTask (the transition, a comment, the
\* agent or the reassignment), the handler writes nothing to the store: no row
\* is created and an existing row stays as it is; the catch block posts
\* "Planning failed" unless the tracker refuses it, and the key is released.
C31_PlanningFailureLeavesStore ==
  [][\A t \in Threads :
       LET k == th[t].key
       IN /\ (th[t].pc \in NtPcs \ {"nt_catch"} /\ th'[t].pc = "nt_catch") => store' = store
          /\ (th[t].pc = "nt_catch" /\ th'[t].pc # "nt_catch")
               => /\ store'[k] = store[k]
                  /\ k \notin processing'
                  /\ jira'[k].rfc = "planning" \/ jira' = jira]_vars

\* the failure of the planning is reported, and there is no row and no key
C31_Witness ==
  \E k \in Keys :
    /\ jira[k].rfc = "planning"
    /\ ~Exists(store, k)
    /\ k \notin processing

\* C32: withRetry calls fn at most maxAttempts times, and at least once when
\* maxAttempts is 1 or more; it returns the first result that fn returns; only
\* a transient error is followed by another call; and the error it throws is
\* the one of its last call, which was the call number maxAttempts or threw an
\* error that is not transient.
C32_RetryBounded ==
  fn.op = "withRetry" =>
    LET r == fn.out
        m == fn.maxAttempts
    IN /\ r.calls <= m
       /\ m >= 1 => r.calls >= 1 /\ r.of = r.calls
       /\ \A i \in 1..(r.calls - 1) : fn.fn[i].threw /\ isTransientError(fn.fn[i].error)
       /\ m >= 1 => /\ r.threw <=> fn.fn[r.calls].threw
                    /\ r.threw => r.calls = m \/ ~isTransientError(fn.fn[r.calls].error)

\* a call that is not the last allowed one threw an error that is not
\* transient, after a transient one, and withRetry threw it
C32_Witness ==
  /\ fn.op = "withRetry"
  /\ fn.maxAttempts = 3
  /\ fn.out = [calls |-> 2, threw |-> TRUE, of |-> 2]

\* C40: classifyError returns 'transient' exactly for the errors for which
\* isTransientError returns true.
C40_TaxonomyAgrees ==
  fn.op = "classifyError" => (fn.category = "transient" <=> fn.transient)

\* C33: a call of waitForStagingWorkflow with the workflow file configured
\* returns normally only after a workflow run was seen to complete with
\* conclusion success, also after a failed run and an auto-fix.
C33_ReturnsOnlyAfterPass ==
  (ci.pc = "idle" /\ ci.result \in {"passed", "no_run", "fell_through"})
    => ci.result = "passed"

\* C34: when a call of mergeIntoStaging ends by raising, local staging holds
\* no merge that remote staging does not hold; and a push puts on remote
\* staging no merge but the one of the call that pushes.
C34_FailedMergeNotCarried ==
  [][\A c \in Callers :
       /\ (InMerge(c) /\ mc'[c].pc = "idle" /\ mc'[c].result # "merged")
            => repo'.localTip \subseteq repo'.remoteTip
       /\ (mc[c].pc = "push" /\ mc'[c].pc = "final")
            => repo'.remoteTip \ repo.remoteTip \subseteq {c}]_vars

\* C35: a record comes into being only by the upsert that ends a successful
\* planning in handleNewTask; in particular no other handler step creates a
\* record again after handleMerge deleted it.
C35_CreatedByPlanningOnly ==
  [][\A k \in Keys :
       (~Exists(store, k) /\ Exists(store', k))
         => \E t \in Threads :
              th[t].pc = "nt_post" /\ th[t].key = k /\ th'[t].pc \notin NtPcs]_vars

\* C36: when the handler of a task finishes and cleans up, the worktree of
\* that task is unregistered and the worktrees of the other tasks, whose
\* handlers are still running, stay registered.
C36_OtherWorkspacesKept ==
  [][\A issueKey \in Callers :
       handlerFinally(issueKey) => activeWorktrees' = activeWorktrees \ {issueKey}]_vars

\* C37: a record in phase test has a PR number and a branch name; the two
\* are set by the same write; and no write to a record takes either away.
C37_TestHasPrAndBranch ==
  /\ [](\A k \in Keys :
         store[k].phase = "test" => store[k].pr_number # Null /\ store[k].branch_name # Null)
  /\ [][\A k \in Keys :
          /\ (store[k].pr_number = Null /\ store'[k].pr_number # Null)
               <=> (store[k].branch_name = Null /\ store'[k].branch_name # Null)
          /\ (Exists(store, k) /\ Exists(store', k))
               => /\ store[k].pr_number # Null => store'[k].pr_number # Null
                  /\ store[k].branch_name # Null => store'[k].branch_name # Null]_vars

\* a record in phase test, with its PR number and branch name, that a rework
\* has written to since
C37_Witness ==
  \E k \in Keys :
    /\ store[k].phase = "test"
    /\ store[k].pr_number # Null /\ store[k].branch_name # Null
    /\ store[k].last_feedback_check # Null

\* C38: an implementation is started on a record in phase failed, by a webhook
\* or by a reconciliation pass, only when a person has assigned the issue to
\* the automation since the failure was recorded.
C38_RetryNeedsReassignment ==
  [][\A t \in Threads :
       (th[t].pc \notin ImPcs /\ th'[t].pc = "im_start" /\ store[th'[t].key].phase = "failed")
         => jira[th'[t].key].reassigned]_vars

\* C39: a record is deleted only by the last step of a handleMerge that has
\* merged the PR in this execution or has seen that the PR is not open; a
\* handleMerge that finds no PR number, or whose lookup, merge or a later call
\* fails, leaves the store as it is and releases the merge key.
C39_DeleteAfterMergeOnly ==
  [][/\ \A k \in Keys :
          (Exists(store, k) /\ ~Exists(store', k))
            => \E t \in Threads :
                 /\ th[t].key = k /\ th'[t].pc \notin MgPcs
                 /\ th[t].pc \in {"mg_cleanup", "mg_closed"}
     /\ \A t \in Threads :
          /\ (th[t].pc # "mg_cleanup" /\ th'[t].pc = "mg_cleanup")
               => th[t].pc = "mg_merge" /\ jira[th[t].key].pr = "open"
                                        /\ jira'[th[t].key].pr = "merged"
          /\ (th[t].pc # "mg_closed" /\ th'[t].pc = "mg_closed")
               => th[t].pc = "mg_getpr" /\ jira[th[t].key].pr \notin {"none", "open"}
          /\ (th[t].pc \in MgPcs /\ th'[t].pc = "mg_catch" /\ th[t].pc # "mg_catch")
               => store' = store
          /\ (th[t].pc \in {"mg_issue", "mg_catch"} /\ th'[t].pc \notin MgPcs)
               => store' = store /\ mergeKey(th[t].key) \notin processing']_vars

\* the PR was merged and a later call of handleMerge failed: the handler has
\* ended, the branch and the record are still there and the merge key is free
C39_Witness ==
  \E k \in Keys :
    /\ jira[k].pr = "merged" /\ jira[k].branch
    /\ Exists(store, k)
    /\ mergeKey(k) \notin processing
    /\ \A t \in Threads : th[t].pc \notin MgPcs

====
